---- MODULE Spec2Model ----
(***************************************************************************)
(* The printer control loop of pi-controller: main(), process_job() and   *)
(* monitor_print() of main.py running against BambuPrinter                 *)
(* (bambu_printer.py) and APIClient (api_client.py).                       *)
(*                                                                         *)
(* Two execution contexts: the control loop (variable pc is its position)  *)
(* and the MQTT receive thread (OnConnect, OnDisconnect, OnMessage), plus  *)
(* the signal handler.  Gateway calls, the download and the upload are     *)
(* blocking calls whose outcome (success or an exception) is chosen        *)
(* nondeterministically.  monitor_print compares differences of clock      *)
(* readings (and the first reading with 0), so its clock is kept relative  *)
(* to its start: it reads Epoch there and advances with monitor_print's    *)
(* sleeps.  connect() counts the sleeps of its wait loop.                  *)
(*                                                                         *)
(* Spec is the whole program, SpecSeq the program against one scripted     *)
(* printer, SpecRecv the receive thread alone on messages of every kind.   *)
(***************************************************************************)
EXTENDS Integers, Sequences, FiniteSets

VARIABLES
    pc,                    \* position of the control loop
    shutdown_requested,    \* main.py global flag
    mqtt_client,           \* BambuPrinter._mqtt_client is not None
    connected,             \* BambuPrinter._connected
    status,                \* BambuPrinter._status (None or a PrinterStatus)
    job,                   \* the job process_job is working on (NoJob outside a cycle)
    file,                  \* the local temp file of the latest job exists
    st,                    \* local snapshot read by is_idle() / monitor_print
    exc,                   \* the exception in flight (None if none)
    last_progress,         \* monitor_print local
    last_progress_update,  \* monitor_print local
    now,                   \* time.time()
    calls,                 \* history: gateway calls made for the job
    cmds,                  \* history: commands published to the printer for the job
    downloaded,            \* history: outcome of the job's download
    uploaded,              \* history: outcome of the job's upload_file call
    ftp,                   \* history: the FTP steps of that call and the fault that ended them
    seen_nonzero,          \* history: an earlier monitoring tick of the job read progress > 0
    last_attempt,          \* history: time of the job's latest update_progress call (0: none)
    result,                \* history: how the job cycle ended
    exit_cause,            \* history: why main() stopped
    faults,                \* number of gateway calls that failed so far
    jobs_fetched,          \* number of jobs handed out so far
    seq_idx,               \* index of the next element of StatusSeq (scenario runs)
    msg,                   \* history: the latest message _on_message handled (receiver runs)
    on_status_update,      \* BambuPrinter._on_status_update is set
    connect_result,        \* history: how printer.connect() ended
    waited,                \* connect(): tenths of a second spent in the wait loop
    rpc,                   \* position of the MQTT receive thread
    status_lock,           \* holder of BambuPrinter._status_lock
    observer_arg,          \* the snapshot the status callback was last called with
    db,                    \* gateway: the jobs table
    reply,                 \* gateway history: the latest request and its response
    in_flight,             \* gateway: the row each concurrent request has selected
    handed_out,            \* gateway history: the job ids get_next_job returned
    stop_result            \* history: what the latest stop_print() call returned

printerVars == <<mqtt_client, connected, status>>
monVars     == <<last_progress, last_progress_update, now>>
histVars    == <<calls, cmds, downloaded, uploaded, ftp, seen_nonzero, last_attempt, result>>
recvVars    == <<rpc, status_lock, observer_arg>>
chanVars    == <<msg, on_status_update, connect_result, waited, recvVars>>
gwVars      == <<db, reply, in_flight, handed_out>>

vars == <<pc, shutdown_requested, mqtt_client, connected, status, job, file, st, exc,
          last_progress, last_progress_update, now, calls, cmds, downloaded, uploaded, ftp,
          seen_nonzero, last_attempt, result, exit_cause, faults, jobs_fetched, seq_idx,
          msg, on_status_update, connect_result, waited, rpc, status_lock, observer_arg,
          db, reply, in_flight, handed_out, stop_result>>

----------------------------------------------------------------------------
(* Bounds of the model *)

\* jobs the gateway hands out in one run
MaxJobs == 1
\* wall clock at process start; any value >= the report interval behaves alike
Epoch == 10
\* seconds of monitoring explored after Epoch
MaxMonitorSeconds == 12
\* gateway calls that may fail in one run
MaxFaults == 2
\* messages handled in a receiver run
MaxMessages == 2
\* rows of the gateway's jobs table
MaxDbJobs == 1

(* Program constants *)

ProgressUpdateInterval == 10
MonitorSleep == 2
\* connect(): the 10 s timeout, in sleeps of 0.1 s
ConnectTimeout == 100

None == "None"
\* the absent snapshot (Python None in BambuPrinter._status)
NoStatus == [state |-> None, progress |-> 0, layer_num |-> 0, total_layers |-> 0,
             remaining_time |-> 0, error_code |-> None]
\* no job held
NoJob == 0

\* gcode_state values the control loop tells apart
States == {"IDLE", "RUNNING", "FINISH", "FAILED"}
\* gcode_state values of the receiver runs: also PAUSE and a state the code
\* does not name
GcodeStates == States \cup {"PAUSE", "PREPARE"}
ProgressValues == {0, 55}
\* values of layer_num, total_layer_num and mc_remaining_time in receiver runs
CountValues == {7}
ErrorCodes == {"0300-8003"}
\* values of the print_error key: an error code, the number 0 (written "0")
\* or the empty string
Zero == "0"
Empty == ""
PrintErrors == ErrorCodes \cup {Zero, Empty}
Keys == {"gcode_state", "mc_percent", "layer_num", "total_layer_num",
         "mc_remaining_time", "print_error"}

\* a PrinterStatus value
PrinterStatus(s, p, ln, tl, rt, e) ==
    [state |-> s, progress |-> p, layer_num |-> ln, total_layers |-> tl,
     remaining_time |-> rt, error_code |-> e]

\* the value standing in a dict for a key it does not hold (never read)
Filler(V) == CHOOSE v \in V : TRUE

\* the "print" sections of status documents, dicts: `keys` are the keys a
\* dict holds (any of them may be missing), the other fields their values,
\* drawn from S (states), P (percentages), N (counts) and E (print_error)
Sections(S, P, N, E) ==
    {d \in [keys : SUBSET Keys, gcode_state : S, mc_percent : P, layer_num : N,
            total_layer_num : N, mc_remaining_time : N, print_error : E] :
        /\ "gcode_state" \notin d.keys => d.gcode_state = Filler(S)
        /\ "mc_percent" \notin d.keys => d.mc_percent = Filler(P)
        /\ "layer_num" \notin d.keys => d.layer_num = Filler(N)
        /\ "total_layer_num" \notin d.keys => d.total_layer_num = Filler(N)
        /\ "mc_remaining_time" \notin d.keys => d.mc_remaining_time = Filler(N)
        /\ "print_error" \notin d.keys => d.print_error = Filler(E)}

\* the sections the control-loop runs receive (the counts, which the control
\* loop only logs, are left at 0)
PrintSections == Sections(States, ProgressValues, {0}, PrintErrors)

\* dict.get(key, default)
Get(d, key, default) == IF key \in d.keys THEN d[key] ELSE default

\* Python truthiness of print_info.get("print_error"): None, 0 and "" are false
Truthy(v) == v \notin {None, Zero, Empty}

\* the decode without the truthiness test: print_error is copied when present
ParseStatus_KeepsFalsyError(print_info) ==
    PrinterStatus(Get(print_info, "gcode_state", "IDLE"),
                  Get(print_info, "mc_percent", 0),
                  Get(print_info, "layer_num", 0),
                  Get(print_info, "total_layer_num", 0),
                  Get(print_info, "mc_remaining_time", 0),
                  Get(print_info, "print_error", None))

\* _parse_status: the PrinterStatus built from a document's print section
ParseStatus(print_info) ==
    PrinterStatus(Get(print_info, "gcode_state", "IDLE"),
                  Get(print_info, "mc_percent", 0),
                  Get(print_info, "layer_num", 0),
                  Get(print_info, "total_layer_num", 0),
                  Get(print_info, "mc_remaining_time", 0),
                  IF Truthy(Get(print_info, "print_error", None))
                     THEN Get(print_info, "print_error", None) ELSE None)

\* every snapshot a status document can produce in the control-loop runs
Snapshots == {ParseStatus(print_info) : print_info \in PrintSections}

\* the messages _on_message is handed in the receiver runs, by what the
\* handler meets: bytes that are not text, text that is not JSON, a JSON
\* scalar, a JSON object without "print", one whose "print" is not an
\* object, and status documents
OtherKinds == {"not_text", "not_json", "not_object", "no_section", "bad_section"}
RecvSections == Sections(GcodeStates, ProgressValues, CountValues, PrintErrors)
Messages ==
    [kind : {"status"}, print : RecvSections]
        \cup [kind : OtherKinds, print : {CHOOSE d \in RecvSections : d.keys = {}}]
\* no message handled yet
NoMsg == [n |-> 0, kind |-> None, print |-> CHOOSE d \in RecvSections : d.keys = {},
          outcome |-> None, notified |-> FALSE]

\* _on_message: the branch a message of this kind ends in
Outcome(kind) ==
    CASE kind = "status" -> "parsed"
      [] kind = "no_section" -> "returned"
      [] kind = "not_json" -> "warning logged"
      [] OTHER -> "error logged"

\* is_idle without the None check
IsIdle_NoneIsIdle(s) == s.state \in {None, "IDLE", "FINISH", "FAILED"}

\* BambuPrinter.is_idle on a value read from the status property
IsIdle(s) == IF s = NoStatus THEN FALSE ELSE s.state \in {"IDLE", "FINISH", "FAILED"}

\* is_printing as the complement of the three idle states
IsPrinting_AnyActive(s) == s.state \notin {"IDLE", "FINISH", "FAILED"}

\* BambuPrinter.is_printing on a value read from the status property
IsPrinting(s) == IF s = NoStatus THEN FALSE ELSE s.state \in {"RUNNING", "PAUSE"}

\* BambuPrinter.upload_file, lines 273-292: the statements of its try block
UploadSteps == <<"connect", "login", "open", "store", "quit">>

\* what can go wrong in them: ImplicitFTPS.connect cannot reach the device,
\* login is refused, the local file cannot be opened, the STOR transfer fails,
\* ntransfercmd is asked for active mode, quit fails
UploadFaults == {"unreachable", "login failed", "unreadable file", "store failed",
                 "active mode", "quit failed"}

\* the statement a fault stops
FaultStep(fault) ==
    CASE fault = "unreachable"     -> 1
      [] fault = "login failed"    -> 2
      [] fault = "unreadable file" -> 3
      [] fault \in {"store failed", "active mode"} -> 4
      [] fault = "quit failed"     -> 5
      [] OTHER                     -> Len(UploadSteps) + 1

\* no upload_file call made yet
NoUpload == [steps |-> <<>>, fault |-> None, returned |-> None]

\* upload_file whose handler catches the errors of the FTP library only:
\* the NotImplementedError of ntransfercmd leaves the function
UploadFile_CatchesFtpErrorsOnly(fault) ==
    [steps    |-> SubSeq(UploadSteps, 1, FaultStep(fault) - 1),
     fault    |-> fault,
     returned |-> IF fault = None THEN "True"
                  ELSE IF fault = "active mode" THEN "raised" ELSE "False"]

\* upload_file: the statements run in order up to the fault; every exception
\* is caught at line 290 and answered with False, and True is returned at
\* line 288, after storbinary and quit
UploadFile(fault) ==
    [steps    |-> SubSeq(UploadSteps, 1, FaultStep(fault) - 1),
     fault    |-> fault,
     returned |-> IF fault = None THEN "True" ELSE "False"]

\* a gateway call as recorded in the history
Call(op, pct, reason, ok) == [op |-> op, pct |-> pct, reason |-> reason, ok |-> ok]

\* outcomes of a gateway call: it returns (TRUE) or raises (FALSE)
Outcomes == IF faults < MaxFaults THEN BOOLEAN ELSE {TRUE}

JobPcs == {"download", "upload", "start_job", "start_print", "start_print_publish",
           "monitor", "monitor_body", "remove", "except"}

----------------------------------------------------------------------------
(* The gateway's jobs table (fly-app) *)

\* the rows of the table
JobIds == 1..MaxDbJobs

\* a job id no row has
UnknownId == 0

\* JobStatus
JobStatus == {"submitted", "approved", "rejected", "queued", "printing", "done", "failed"}

\* a nullable integer column: <<>> is NULL, <<v>> the value v
Null == <<>>

\* the row create_job inserts: submitted, the nullable columns NULL
\* (approved_at: 0 is NULL, otherwise the rank of the approval time;
\* completed_at: whether it is set)
NewJob == [status |-> "submitted", status_message |-> None, approved_at |-> 0,
           completed_at |-> FALSE, print_progress |-> Null]

\* the optional message of an approve or reject request
AdminMessages == {None, "note"}

\* the mc_percent values the printer may report, in and out of 0..100
PrinterPercents == {-1, 0, 100, 101}

\* a request to the gateway and the HTTP status of its response
Reply(op, job_id, progress, code) ==
    [op |-> op, job_id |-> job_id, progress |-> progress, code |-> code]

NoReply == Reply(None, UnknownId, Null, 0)
\* the requests the gateway may be handling at the same time; each holds
\* the operation and the row its select returned until its commit
MaxRequests == 2
Requests == 1..MaxRequests
NoRequest == [op |-> None, job_id |-> UnknownId]

----------------------------------------------------------------------------
Init ==
    /\ pc = "validate"
    /\ shutdown_requested = FALSE
    /\ mqtt_client = FALSE
    /\ connected = FALSE
    /\ status = NoStatus
    /\ job = NoJob
    /\ file = FALSE
    /\ st = NoStatus
    /\ exc = None
    /\ last_progress = -1
    /\ last_progress_update = 0
    /\ now = Epoch
    /\ calls = <<>>
    /\ cmds = <<>>
    /\ downloaded = "no"
    /\ uploaded = "no"
    /\ ftp = NoUpload
    /\ seen_nonzero = FALSE
    /\ last_attempt = 0
    /\ result = "none"
    /\ exit_cause = "none"
    /\ faults = 0
    /\ jobs_fetched = 0
    /\ seq_idx = 1
    /\ msg = NoMsg
    /\ on_status_update = FALSE
    /\ connect_result = "none"
    /\ waited = 0
    /\ rpc = "idle"
    /\ status_lock = "free"
    /\ observer_arg = NoStatus
    /\ db = [id \in JobIds |-> NewJob]
    /\ reply = NoReply
    /\ in_flight = [r \in Requests |-> NoRequest]
    /\ handed_out = <<>>
    /\ stop_result = None

----------------------------------------------------------------------------
(* The signal handler and the MQTT receive thread *)

\* signal_handler (installed first thing in main)
SignalHandler ==
    /\ pc # "exited"
    /\ ~shutdown_requested
    /\ shutdown_requested' = TRUE
    /\ UNCHANGED <<pc, printerVars, job, file, st, exc, monVars, histVars,
                   exit_cause, faults, jobs_fetched, seq_idx, gwVars, stop_result, chanVars>>

\* _on_connect with rc = 0 (rc # 0 only logs); the client's network loop,
\* started by loop_start, connects again after a lost connection
OnConnect ==
    /\ mqtt_client /\ ~connected
    /\ connected' = TRUE
    /\ UNCHANGED <<pc, shutdown_requested, mqtt_client, status, job, file, st, exc,
                   monVars, histVars, exit_cause, faults, jobs_fetched, seq_idx, gwVars, stop_result, chanVars>>

\* _on_disconnect
OnDisconnect ==
    /\ mqtt_client /\ connected
    /\ connected' = FALSE
    /\ UNCHANGED <<pc, shutdown_requested, mqtt_client, status, job, file, st, exc,
                   monVars, histVars, exit_cause, faults, jobs_fetched, seq_idx, gwVars, stop_result, chanVars>>

\* _parse_status updating the shared PrinterStatus in place, the state field
\* first: a reader may find the new state next to the old other fields
Publish_FieldByField(s) ==
    /\ status_lock = "free"
    /\ status' \in {s, [status EXCEPT !.state = s.state]}
    /\ UNCHANGED <<pc, shutdown_requested, mqtt_client, connected, job, file, st, exc,
                   monVars, histVars, exit_cause, faults, jobs_fetched,
                   on_status_update, status_lock, connect_result, waited>>

\* _parse_status from line 237 on: the snapshot is replaced as a whole
Publish(s) ==
    /\ status_lock = "free"
    /\ status' = s
    /\ UNCHANGED <<pc, shutdown_requested, mqtt_client, connected, job, file, st, exc,
                   monVars, histVars, exit_cause, faults, jobs_fetched,
                   on_status_update, status_lock, connect_result, waited>>

\* _on_message for a document with a "print" section
OnMessage ==
    /\ mqtt_client /\ connected
    /\ \E s \in Snapshots : Publish(s)
    /\ UNCHANGED <<seq_idx, gwVars, stop_result, msg, rpc, observer_arg>>

\* set_status_callback
SetStatusCallback ==
    /\ ~on_status_update
    /\ on_status_update' = TRUE
    /\ UNCHANGED <<pc, shutdown_requested, printerVars, job, file, st, exc, monVars,
                   histVars, exit_cause, faults, jobs_fetched, seq_idx, gwVars, stop_result, msg, recvVars,
                   connect_result, waited>>

\* the handler clearing the snapshot when it meets a message it cannot use
HandleMessage_ClearsOnError(m) ==
    LET notify == m.kind = "status" /\ on_status_update
    IN  /\ msg' = [n |-> msg.n + 1, kind |-> m.kind, print |-> m.print,
                   outcome |-> Outcome(m.kind), notified |-> notify]
        /\ rpc' = IF notify THEN "observer" ELSE "idle"
        /\ observer_arg' = IF notify THEN ParseStatus(m.print) ELSE observer_arg
        /\ IF m.kind = "status"
              THEN Publish(ParseStatus(m.print))
              ELSE /\ status' = NoStatus
                   /\ UNCHANGED <<pc, shutdown_requested, mqtt_client, connected, job,
                                  file, st, exc, monVars, histVars, exit_cause, faults,
                                  jobs_fetched, on_status_update, status_lock,
                                  connect_result, waited>>

\* _parse_status calling the callback inside its with-block, the lock held
HandleMessage_NotifiesUnderLock(m) ==
    LET notify == m.kind = "status" /\ on_status_update
    IN  /\ msg' = [n |-> msg.n + 1, kind |-> m.kind, print |-> m.print,
                   outcome |-> Outcome(m.kind), notified |-> notify]
        /\ rpc' = IF notify THEN "observer" ELSE "idle"
        /\ observer_arg' = IF notify THEN ParseStatus(m.print) ELSE observer_arg
        /\ IF m.kind = "status"
              THEN /\ status_lock = "free"
                   /\ status' = ParseStatus(m.print)
                   /\ status_lock' = IF notify THEN "receiver" ELSE "free"
                   /\ UNCHANGED <<pc, shutdown_requested, mqtt_client, connected, job,
                                  file, st, exc, monVars, histVars, exit_cause, faults,
                                  jobs_fetched, on_status_update, connect_result, waited>>
              ELSE UNCHANGED <<pc, shutdown_requested, printerVars, job, file, st, exc,
                               monVars, histVars, exit_cause, faults, jobs_fetched,
                               on_status_update, status_lock, connect_result, waited>>

\* _on_message and _parse_status on message m: only a status document gets
\* past line 235; its snapshot replaces the old one inside the with-block of
\* lines 251-252 (the lock is taken, the reference assigned, the lock
\* released: Publish), and after it the callback, if one is set, is called
\* with the same snapshot (lines 254-255); everything else returns or is
\* caught and logged
HandleMessage(m) ==
    LET notify == m.kind = "status" /\ on_status_update
    IN  /\ msg' = [n |-> msg.n + 1, kind |-> m.kind, print |-> m.print,
                   outcome |-> Outcome(m.kind), notified |-> notify]
        /\ rpc' = IF notify THEN "observer" ELSE "idle"
        /\ observer_arg' = IF notify THEN ParseStatus(m.print) ELSE observer_arg
        /\ IF m.kind = "status"
              THEN Publish(ParseStatus(m.print))
              ELSE UNCHANGED <<pc, shutdown_requested, printerVars, job, file, st, exc,
                               monVars, histVars, exit_cause, faults, jobs_fetched,
                               on_status_update, status_lock, connect_result, waited>>

\* _on_message for any message the broker may deliver
OnMessageAny ==
    /\ mqtt_client /\ connected
    /\ rpc = "idle"
    /\ msg.n < MaxMessages
    /\ \E m \in Messages : HandleMessage(m)
    /\ UNCHANGED <<seq_idx, gwVars, stop_result>>

\* the status callback returns (or raises, which _on_message catches at line
\* 229): the receive thread is free for the next message
ObserverReturns ==
    /\ rpc = "observer"
    /\ rpc' = "idle"
    /\ UNCHANGED <<pc, shutdown_requested, printerVars, job, file, st, exc, monVars,
                   histVars, exit_cause, faults, jobs_fetched, seq_idx, gwVars, stop_result, msg,
                   on_status_update, connect_result, waited, status_lock, observer_arg>>

\* the status property, line 154: a reader on another thread takes the lock
StatusAcquire ==
    /\ status_lock = "free"
    /\ status_lock' = "reader"
    /\ UNCHANGED <<pc, shutdown_requested, printerVars, job, file, st, exc, monVars,
                   histVars, exit_cause, faults, jobs_fetched, seq_idx, gwVars, stop_result, msg,
                   on_status_update, connect_result, waited, rpc, observer_arg>>

\* the status property, line 155: the reference is returned, the lock released
StatusRelease ==
    /\ status_lock = "reader"
    /\ status_lock' = "free"
    /\ UNCHANGED <<pc, shutdown_requested, printerVars, job, file, st, exc, monVars,
                   histVars, exit_cause, faults, jobs_fetched, seq_idx, gwVars, stop_result, msg,
                   on_status_update, connect_result, waited, rpc, observer_arg>>

----------------------------------------------------------------------------
(* main(): start-up, the poll loop, shutdown *)

\* main lines 169-181: configuration validation (sys.exit(1) before the try)
Validate ==
    /\ pc = "validate"
    /\ \/ pc' = "connect" /\ UNCHANGED exit_cause
       \/ pc' = "exited" /\ exit_cause' = "config"
    /\ UNCHANGED <<shutdown_requested, printerVars, job, file, st, exc, monVars,
                   histVars, faults, jobs_fetched, seq_idx, gwVars, stop_result, chanVars>>

\* BambuPrinter.connect up to loop_start (lines 163-183): nothing is done
\* when a client exists; otherwise the client is created and the TCP/TLS
\* connect returns or raises (ConnectionRefusedError when the broker refuses
\* the connection, another OSError otherwise), which main's outer handler
\* turns into exit(1)
Connect ==
    /\ pc = "connect"
    /\ waited' = 0
    /\ IF mqtt_client
          THEN /\ pc' = "main_loop" /\ connect_result' = "returned"
               /\ UNCHANGED <<mqtt_client, exit_cause>>
          ELSE /\ mqtt_client' = TRUE
               /\ \/ pc' = "connect_wait" /\ UNCHANGED <<exit_cause, connect_result>>
                  \/ /\ pc' = "finally" /\ exit_cause' = "connect"
                     /\ connect_result' \in {"ConnectionRefusedError", "OSError"}
    /\ UNCHANGED <<shutdown_requested, connected, status, job, file, st, exc, monVars,
                   histVars, faults, jobs_fetched, seq_idx, gwVars, stop_result, msg, on_status_update, recvVars>>

\* BambuPrinter.connect lines 186-189, one evaluation of the wait loop's
\* condition: sleep 0.1 s while _connected is unset and the 10 s are not over
ConnectWait ==
    /\ pc = "connect_wait"
    /\ IF ~connected /\ waited < ConnectTimeout
          THEN waited' = waited + 1 /\ UNCHANGED pc
          ELSE waited' = 0 /\ pc' = "connect_check"
    /\ UNCHANGED <<shutdown_requested, printerVars, job, file, st, exc, monVars,
                   histVars, exit_cause, faults, jobs_fetched, seq_idx, gwVars, stop_result, msg,
                   on_status_update, recvVars, connect_result>>

\* connect() returning although _connected is unset after the wait
ConnectCheck_ReturnsUnconnected ==
    /\ pc = "connect_check"
    /\ pc' = "main_loop" /\ connect_result' = "returned" /\ UNCHANGED exit_cause
    /\ UNCHANGED <<shutdown_requested, printerVars, job, file, st, exc, monVars,
                   histVars, faults, jobs_fetched, seq_idx, gwVars, stop_result, msg, on_status_update, recvVars,
                   waited>>

\* BambuPrinter.connect lines 191-194: ConnectionError when _connected is
\* unset after the wait, the return to main otherwise
ConnectCheck ==
    /\ pc = "connect_check"
    /\ IF connected
          THEN pc' = "main_loop" /\ connect_result' = "returned" /\ UNCHANGED exit_cause
          ELSE /\ pc' = "finally" /\ exit_cause' = "connect"
               /\ connect_result' = "ConnectionError"
    /\ UNCHANGED <<shutdown_requested, printerVars, job, file, st, exc, monVars,
                   histVars, faults, jobs_fetched, seq_idx, gwVars, stop_result, msg, on_status_update, recvVars,
                   waited>>

\* main lines 195-201: the loop condition, then is_idle() reads the snapshot;
\* a busy printer means sleep and continue
MainLoop ==
    /\ pc = "main_loop"
    /\ IF shutdown_requested
          THEN pc' = "finally" /\ exit_cause' = "shutdown" /\ UNCHANGED st
          ELSE /\ UNCHANGED exit_cause
               /\ IF IsIdle(status)
                     THEN pc' = "get_next_job" /\ st' = status
                     ELSE pc' = "main_loop" /\ UNCHANGED st
    /\ UNCHANGED <<shutdown_requested, printerVars, job, file, exc, monVars,
                   histVars, faults, jobs_fetched, seq_idx, gwVars, stop_result, chanVars>>

\* main lines 203-211: api.get_next_job() returns a job (process_job is
\* entered), returns None, or raises
GetNextJobReturns(answer) ==
    /\ pc = "get_next_job"
    /\ st' = NoStatus
    /\ CASE answer = "job" ->
               /\ jobs_fetched < MaxJobs
               /\ jobs_fetched' = jobs_fetched + 1
               /\ job' = jobs_fetched + 1
               /\ file' = FALSE
               /\ pc' = "download"
               /\ UNCHANGED exc
         [] answer = "null" ->
               /\ pc' = "poll_sleep"
               /\ UNCHANGED <<job, jobs_fetched, file, exc>>
         [] OTHER ->
               /\ pc' = "main_except"
               /\ exc' = "get_next_job error"
               /\ UNCHANGED <<job, jobs_fetched, file>>
    /\ UNCHANGED <<shutdown_requested, printerVars, monVars, histVars, exit_cause,
                   faults, seq_idx, stop_result, chanVars>>

GetNextJob ==
    /\ \E answer \in {"job", "null", "raised"} : GetNextJobReturns(answer)
    /\ UNCHANGED gwVars

\* the loop's handler treating a caught exception as fatal
MainExcept_Exits ==
    /\ pc = "main_except"
    /\ exc' = None
    /\ pc' = "finally"
    /\ UNCHANGED <<shutdown_requested, printerVars, job, file, st, monVars, histVars,
                   exit_cause, faults, jobs_fetched, seq_idx, gwVars, stop_result, chanVars>>

\* main lines 213-214: an exception caught inside the loop is logged
MainExcept ==
    /\ pc = "main_except"
    /\ exc' = None
    /\ pc' = "poll_sleep"
    /\ UNCHANGED <<shutdown_requested, printerVars, job, file, st, monVars, histVars,
                   exit_cause, faults, jobs_fetched, seq_idx, gwVars, stop_result, chanVars>>

\* main lines 216-218: the poll sleep, back to the loop condition (the
\* history of the finished job cycle ends here)
PollSleep ==
    /\ pc = "poll_sleep"
    /\ pc' = "main_loop"
    /\ calls' = <<>> /\ cmds' = <<>>
    /\ downloaded' = "no" /\ uploaded' = "no" /\ ftp' = NoUpload
    /\ seen_nonzero' = FALSE /\ last_attempt' = 0 /\ result' = "none"
    /\ UNCHANGED <<shutdown_requested, printerVars, job, file, st, exc, monVars,
                   exit_cause, faults, jobs_fetched, seq_idx, gwVars, stop_result, chanVars>>

\* main lines 225-228 and BambuPrinter.disconnect
Finally ==
    /\ pc = "finally"
    /\ pc' = "exited"
    /\ mqtt_client' = FALSE
    /\ connected' = IF mqtt_client THEN FALSE ELSE connected
    /\ UNCHANGED <<shutdown_requested, status, job, file, st, exc, monVars, histVars,
                   exit_cause, faults, jobs_fetched, seq_idx, gwVars, stop_result, chanVars>>

----------------------------------------------------------------------------
(* process_job *)

\* lines 58-61: download_job_file; on an exception the destination file may
\* already have been created by download_file
Download ==
    /\ pc = "download"
    /\ \/ pc' = "upload" /\ file' = TRUE /\ downloaded' = "ok" /\ UNCHANGED exc
       \/ /\ pc' = "except" /\ file' \in BOOLEAN /\ downloaded' = "failed"
          /\ exc' = "download error"
    /\ UNCHANGED <<shutdown_requested, printerVars, job, st, monVars, calls, cmds,
                   uploaded, ftp, seen_nonzero, last_attempt, result, exit_cause, faults,
                   jobs_fetched, seq_idx, gwVars, stop_result, chanVars>>

\* process_job going on after upload_file returned False
Upload_IgnoresFalse ==
    /\ pc = "upload"
    /\ pc' = "start_job"
    /\ \E fault \in UploadFaults \cup {None} :
          /\ ftp' = UploadFile(fault)
          /\ uploaded' = IF ftp'.returned = "True" THEN "ok" ELSE "failed"
    /\ UNCHANGED <<shutdown_requested, printerVars, job, file, st, exc, monVars, calls,
                   cmds, downloaded, seen_nonzero, last_attempt, result, exit_cause,
                   faults, jobs_fetched, seq_idx, gwVars, stop_result, chanVars>>

\* lines 63-67: printer.upload_file runs into one of its faults or into none;
\* True goes on to start_job, False raises the "Failed to upload" exception,
\* and an exception leaving upload_file would reach the handler of line 86
\* as it is
Upload ==
    /\ pc = "upload"
    /\ \E fault \in UploadFaults \cup {None} :
          /\ ftp' = UploadFile(fault)
          /\ CASE ftp'.returned = "True" ->
                     pc' = "start_job" /\ uploaded' = "ok" /\ UNCHANGED exc
               [] ftp'.returned = "False" ->
                     /\ pc' = "except" /\ uploaded' = "failed"
                     /\ exc' = "Failed to upload file to printer"
               [] OTHER ->
                     pc' = "except" /\ uploaded' = "raised" /\ exc' = fault
    /\ UNCHANGED <<shutdown_requested, printerVars, job, file, st, monVars, calls,
                   cmds, downloaded, seen_nonzero, last_attempt, result, exit_cause,
                   faults, jobs_fetched, seq_idx, gwVars, stop_result, chanVars>>

\* process_job going on to start_print after api.start_job raised
StartJob_IgnoresFailure ==
    /\ pc = "start_job"
    /\ \E ok \in Outcomes :
          /\ calls' = Append(calls, Call("start", -1, None, ok))
          /\ faults' = IF ok THEN faults ELSE faults + 1
    /\ pc' = "start_print"
    /\ UNCHANGED <<shutdown_requested, printerVars, job, file, st, exc, monVars, cmds,
                   downloaded, uploaded, ftp, seen_nonzero, last_attempt, result,
                   exit_cause, jobs_fetched, seq_idx, gwVars, stop_result, chanVars>>

\* lines 69-71: api.start_job returns or raises
StartJobReturns(ok) ==
    /\ pc = "start_job"
    /\ calls' = Append(calls, Call("start", -1, None, ok))
    /\ faults' = IF ok THEN faults ELSE faults + 1
    /\ IF ok THEN pc' = "start_print" /\ UNCHANGED exc
             ELSE pc' = "except" /\ exc' = "start_job error"
    /\ UNCHANGED <<shutdown_requested, printerVars, job, file, st, monVars, cmds,
                   downloaded, uploaded, ftp, seen_nonzero, last_attempt, result,
                   exit_cause, jobs_fetched, seq_idx, stop_result, chanVars>>

StartJob ==
    /\ \E ok \in Outcomes : StartJobReturns(ok)
    /\ UNCHANGED gwVars

\* process_job calling start_print without clean_print_error being published
StartPrint_SkipsClear ==
    /\ pc = "start_print"
    /\ IF ~mqtt_client \/ ~connected
          THEN /\ pc' = "except" /\ exc' = "Failed to start print on printer"
          ELSE /\ pc' = "start_print_publish" /\ UNCHANGED exc
    /\ UNCHANGED <<shutdown_requested, printerVars, job, file, st, monVars, calls, cmds,
                   downloaded, uploaded, ftp, seen_nonzero, last_attempt, result,
                   exit_cause, faults, jobs_fetched, seq_idx, gwVars, stop_result, chanVars>>

\* lines 73-75 with BambuPrinter.start_print lines 296-303: without a
\* connected client nothing is published and False is returned, which
\* raises; otherwise clean_print_error is published and start_print sleeps 1 s
StartPrint ==
    /\ pc = "start_print"
    /\ IF ~mqtt_client \/ ~connected
          THEN /\ pc' = "except" /\ exc' = "Failed to start print on printer"
               /\ UNCHANGED cmds
          ELSE /\ cmds' = Append(cmds, "clean_print_error")
               /\ pc' = "start_print_publish" /\ UNCHANGED exc
    /\ UNCHANGED <<shutdown_requested, printerVars, job, file, st, monVars, calls,
                   downloaded, uploaded, ftp, seen_nonzero, last_attempt, result,
                   exit_cause, faults, jobs_fetched, seq_idx, gwVars, stop_result, chanVars>>

\* BambuPrinter.start_print lines 305-324, then line 78 and lines 96-98 of
\* monitor_print: after the sleep project_file is published (publishing these
\* fixed payloads does not raise, whether or not the session is still up),
\* True is returned and monitor_print is entered at once
StartPrintPublish ==
    /\ pc = "start_print_publish"
    /\ cmds' = Append(cmds, "project_file")
    /\ last_progress' = -1
    /\ last_progress_update' = 0
    /\ pc' = "monitor"
    /\ UNCHANGED <<shutdown_requested, printerVars, job, file, st, exc, now, calls,
                   downloaded, uploaded, ftp, seen_nonzero, last_attempt, result,
                   exit_cause, faults, jobs_fetched, seq_idx, gwVars, stop_result, chanVars>>

\* lines 80-84 and the return to main: os.remove of the file this cycle
\* wrote (monitor_print's locals are gone, a later monitor_print starts anew)
Remove ==
    /\ pc = "remove"
    /\ file' = FALSE
    /\ job' = NoJob
    /\ pc' = "poll_sleep"
    /\ last_progress' = -1 /\ last_progress_update' = 0 /\ now' = Epoch
    /\ UNCHANGED <<shutdown_requested, printerVars, st, exc, histVars,
                   exit_cause, faults, jobs_fetched, seq_idx, gwVars, stop_result, chanVars>>

\* the handler without the try around fail_job: its exception leaves process_job
ExceptHandler_Propagates ==
    /\ pc = "except"
    /\ \E ok \in Outcomes :
          /\ calls' = Append(calls, Call("fail", -1, exc, ok))
          /\ faults' = IF ok THEN faults ELSE faults + 1
          /\ exc' = IF ok THEN None ELSE "fail_job error"
          /\ pc' = IF ok THEN "poll_sleep" ELSE "main_except"
    /\ result' = "failed"
    /\ job' = NoJob
    /\ UNCHANGED <<shutdown_requested, printerVars, file, st, monVars, cmds,
                   downloaded, uploaded, ftp, seen_nonzero, last_attempt, exit_cause,
                   jobs_fetched, seq_idx, gwVars, stop_result, chanVars>>

\* process_job whose handler calls fail_job again when the call failed
ExceptHandler_Retries ==
    /\ pc = "except"
    /\ \E ok \in Outcomes :
          /\ calls' = IF ok THEN Append(calls, Call("fail", -1, exc, ok))
                            ELSE calls \o <<Call("fail", -1, exc, ok),
                                            Call("fail", -1, exc, TRUE)>>
          /\ faults' = IF ok THEN faults ELSE faults + 1
    /\ result' = "failed"
    /\ exc' = None
    /\ job' = NoJob
    /\ pc' = "poll_sleep"
    /\ UNCHANGED <<shutdown_requested, printerVars, file, st, monVars, cmds,
                   downloaded, uploaded, ftp, seen_nonzero, last_attempt, exit_cause,
                   jobs_fetched, seq_idx, gwVars, stop_result, chanVars>>

\* lines 86-91: the job-cycle boundary; fail_job is attempted with the
\* exception's text, its own failure is only logged; return to main
ExceptHandlerReturns(ok) ==
    /\ pc = "except"
    /\ calls' = Append(calls, Call("fail", -1, exc, ok))
    /\ faults' = IF ok THEN faults ELSE faults + 1
    /\ result' = "failed"
    /\ exc' = None
    /\ job' = NoJob
    /\ pc' = "poll_sleep"
    /\ UNCHANGED <<shutdown_requested, printerVars, file, st, monVars, cmds,
                   downloaded, uploaded, ftp, seen_nonzero, last_attempt, exit_cause,
                   jobs_fetched, seq_idx, stop_result, chanVars>>

ExceptHandler ==
    /\ \E ok \in Outcomes : ExceptHandlerReturns(ok)
    /\ UNCHANGED gwVars

----------------------------------------------------------------------------
(* monitor_print *)

\* the last instant the clock of a job cycle is counted to
Horizon == Epoch + MaxMonitorSeconds

\* time.sleep(2) at lines 106 and 156: the clock read after it.  At the
\* horizon the clock stands still, which the loop is let to go on with only
\* while the interval since the last report has passed: from then on no
\* comparison of line 113 depends on how much later it is
Sleep(t) == IF t < Horizon THEN t + MonitorSleep ELSE t

ClockRuns(t, lpu) == t < Horizon \/ t - lpu >= ProgressUpdateInterval

\* monitor_print reporting the job failed when it leaves the loop on shutdown
MonitorLoop_FailsOnShutdown ==
    /\ pc = "monitor"
    /\ IF shutdown_requested
          THEN /\ pc' = "remove" /\ result' = "shutdown"
               /\ calls' = Append(calls, Call("fail", -1, "shutdown", TRUE))
               /\ UNCHANGED <<st, now>>
          ELSE /\ ClockRuns(now, last_progress_update)
               /\ UNCHANGED <<result, calls>>
               /\ IF status = NoStatus
                     THEN pc' = "monitor" /\ now' = Sleep(now) /\ UNCHANGED st
                     ELSE pc' = "monitor_body" /\ st' = status /\ UNCHANGED now
    /\ UNCHANGED <<shutdown_requested, printerVars, job, file, exc, last_progress,
                   last_progress_update, cmds, downloaded, uploaded, ftp,
                   seen_nonzero, last_attempt, exit_cause, faults, jobs_fetched,
                   seq_idx, gwVars, stop_result, chanVars>>

\* lines 102-107: the loop condition, the snapshot read, and the wait while
\* no snapshot exists; line 159 and the return when shutdown was requested
MonitorLoop ==
    /\ pc = "monitor"
    /\ IF shutdown_requested
          THEN /\ pc' = "remove" /\ result' = "shutdown"
               /\ UNCHANGED <<st, now>>
          ELSE /\ ClockRuns(now, last_progress_update)
               /\ UNCHANGED result
               /\ IF status = NoStatus
                     THEN pc' = "monitor" /\ now' = Sleep(now) /\ UNCHANGED st
                     ELSE pc' = "monitor_body" /\ st' = status /\ UNCHANGED now
    /\ UNCHANGED <<shutdown_requested, printerVars, job, file, exc, last_progress,
                   last_progress_update, calls, cmds, downloaded, uploaded, ftp,
                   seen_nonzero, last_attempt, exit_cause, faults, jobs_fetched,
                   seq_idx, gwVars, stop_result, chanVars>>

\* the report condition without the comparison with the last reported value
ReportDue_IgnoresValue(s, lp, lpu, t) == t - lpu >= ProgressUpdateInterval

\* lines 111-114: is a progress report due on this tick
ReportDue(s, lp, lpu, t) ==
    s.progress # lp /\ t - lpu >= ProgressUpdateInterval

\* the checks of lines 127-144 in the other order: errors before completion
Verdict_ErrorsFirst(s, lp) ==
    IF s.state = "FAILED" \/ s.error_code # None
       THEN <<"fail", IF s.error_code # None THEN s.error_code ELSE "unknown">>
    ELSE IF s.state = "FINISH" THEN <<"complete", None>>
    ELSE IF s.state = "IDLE" /\ lp > 0 THEN <<"fail", "stopped unexpectedly">>
    ELSE <<None, None>>

\* lines 127-154: what the tick does with snapshot s once last_progress is lp:
\* <<gateway call, reason>>, or <<None, None>> to keep monitoring
Verdict(s, lp) ==
    IF s.state = "FINISH" THEN <<"complete", None>>
    ELSE IF s.state = "FAILED" \/ s.error_code # None
         THEN <<"fail", IF s.error_code # None THEN s.error_code ELSE "unknown">>
    ELSE IF s.state = "IDLE" /\ lp > 0 THEN <<"fail", "stopped unexpectedly">>
    ELSE <<None, None>>

\* the tick recording the value as reported although update_progress raised
MonitorBody_FailedReportAdvances ==
    /\ pc = "monitor_body"
    /\ \E ok \in Outcomes :
       LET due  == ReportDue(st, last_progress, last_progress_update, now)
           sent == due /\ ok
           lp   == IF due THEN st.progress ELSE last_progress
           c1   == IF due THEN Append(calls, Call("progress", st.progress, None, ok))
                          ELSE calls
           f1   == IF due /\ ~ok THEN faults + 1 ELSE faults
           v    == Verdict(st, lp)
       IN  /\ last_progress' = lp
           /\ last_progress_update' = IF sent THEN now ELSE last_progress_update
           /\ last_attempt' = IF due THEN now ELSE last_attempt
           /\ IF v[1] = None
                 THEN /\ calls' = c1
                      /\ faults' = f1
                      /\ pc' = "monitor"
                      /\ now' = Sleep(now)
                      /\ UNCHANGED result
                 ELSE /\ \E tok \in (IF f1 < MaxFaults THEN BOOLEAN ELSE {TRUE}) :
                            /\ calls' = Append(c1, Call(v[1], -1, v[2], tok))
                            /\ faults' = IF tok THEN f1 ELSE f1 + 1
                      /\ pc' = "remove"
                      /\ result' = IF v[1] = "complete" THEN "completed" ELSE "failed"
                      /\ UNCHANGED now
    /\ seen_nonzero' = (seen_nonzero \/ st.progress > 0)
    /\ st' = NoStatus
    /\ UNCHANGED <<shutdown_requested, printerVars, job, file, exc, cmds, downloaded,
                   uploaded, ftp, exit_cause, jobs_fetched, seq_idx, gwVars, stop_result, chanVars>>

\* monitor_print letting a failed complete_job or fail_job call leave the
\* function as an exception, which process_job's handler answers
MonitorBody_TerminalFailureRaises ==
    /\ pc = "monitor_body"
    /\ \E ok \in Outcomes :
       LET due  == ReportDue(st, last_progress, last_progress_update, now)
           sent == due /\ ok
           lp   == IF sent THEN st.progress ELSE last_progress
           c1   == IF due THEN Append(calls, Call("progress", st.progress, None, ok))
                          ELSE calls
           f1   == IF due /\ ~ok THEN faults + 1 ELSE faults
           v    == Verdict(st, lp)
       IN  /\ last_progress' = lp
           /\ last_progress_update' = IF sent THEN now ELSE last_progress_update
           /\ last_attempt' = IF due THEN now ELSE last_attempt
           /\ IF v[1] = None
                 THEN /\ calls' = c1
                      /\ faults' = f1
                      /\ pc' = "monitor"
                      /\ now' = Sleep(now)
                      /\ UNCHANGED <<result, exc>>
                 ELSE /\ \E tok \in (IF f1 < MaxFaults THEN BOOLEAN ELSE {TRUE}) :
                            /\ calls' = Append(c1, Call(v[1], -1, v[2], tok))
                            /\ faults' = IF tok THEN f1 ELSE f1 + 1
                            /\ pc' = IF tok THEN "remove" ELSE "except"
                            /\ exc' = IF tok THEN exc ELSE "gateway error"
                      /\ result' = IF v[1] = "complete" THEN "completed" ELSE "failed"
                      /\ UNCHANGED now
    /\ seen_nonzero' = (seen_nonzero \/ st.progress > 0)
    /\ st' = NoStatus
    /\ UNCHANGED <<shutdown_requested, printerVars, job, file, cmds, downloaded,
                   uploaded, ftp, exit_cause, jobs_fetched, seq_idx, gwVars, stop_result, chanVars>>

\* lines 109-156: one iteration on the snapshot read at its top
\* one tick whose update_progress call, if made, returned (ok) or raised and
\* whose complete_job or fail_job call, if made, returned (tok) or raised
MonitorBodyReturns(ok, tok) ==
    /\ pc = "monitor_body"
    /\ LET due  == ReportDue(st, last_progress, last_progress_update, now)
           sent == due /\ ok
           lp   == IF sent THEN st.progress ELSE last_progress
           c1   == IF due THEN Append(calls, Call("progress", st.progress, None, ok))
                          ELSE calls
           f1   == IF due /\ ~ok THEN faults + 1 ELSE faults
           v    == Verdict(st, lp)
       IN  /\ last_progress' = lp
           /\ last_progress_update' = IF sent THEN now ELSE last_progress_update
           /\ last_attempt' = IF due THEN now ELSE last_attempt
           /\ IF v[1] = None
                 THEN /\ calls' = c1
                      /\ faults' = f1
                      /\ pc' = "monitor"
                      /\ now' = Sleep(now)
                      /\ UNCHANGED result
                 ELSE /\ calls' = Append(c1, Call(v[1], -1, v[2], tok))
                      /\ faults' = IF tok THEN f1 ELSE f1 + 1
                      /\ pc' = "remove"
                      /\ result' = IF v[1] = "complete" THEN "completed" ELSE "failed"
                      /\ UNCHANGED now
    /\ seen_nonzero' = (seen_nonzero \/ st.progress > 0)
    /\ st' = NoStatus
    /\ UNCHANGED <<shutdown_requested, printerVars, job, file, exc, cmds, downloaded,
                   uploaded, ftp, exit_cause, jobs_fetched, seq_idx, stop_result, chanVars>>

MonitorBody ==
    /\ \E ok \in Outcomes :
          LET due == ReportDue(st, last_progress, last_progress_update, now)
              f1  == IF due /\ ~ok THEN faults + 1 ELSE faults
              v   == Verdict(st, IF due /\ ok THEN st.progress ELSE last_progress)
          IN  \E tok \in (IF v[1] # None /\ f1 < MaxFaults THEN BOOLEAN ELSE {TRUE}) :
                 MonitorBodyReturns(ok, tok)
    /\ UNCHANGED gwVars

----------------------------------------------------------------------------
Receiver == OnConnect \/ OnDisconnect \/ OnMessage

Main == Validate \/ Connect \/ ConnectWait \/ ConnectCheck \/ MainLoop \/ GetNextJob \/ MainExcept
           \/ PollSleep \/ Finally

ProcessJob == Download \/ Upload \/ StartJob \/ StartPrint \/ StartPrintPublish
                 \/ Remove \/ ExceptHandler

MonitorPrint == MonitorLoop \/ MonitorBody

Next == SignalHandler \/ Receiver \/ Main \/ ProcessJob \/ MonitorPrint

Spec == Init /\ [][Next]_vars

----------------------------------------------------------------------------
(* The scenario "Idle, Running(10%), Running(55%), Finished": the printer   *)
(* reports Idle before the job, and the rest once the job's start command   *)
(* was published, while monitor_print polls.  The Finished report carries   *)
(* a progress of 55 or 100.  Everything else is as in Spec.                 *)

FinishPercents == {55, 100}

StatusSeq(p) ==
    << PrinterStatus("IDLE", 0, 0, 0, 0, None), PrinterStatus("RUNNING", 10, 0, 0, 0, None),
       PrinterStatus("RUNNING", 55, 0, 0, 0, None), PrinterStatus("FINISH", p, 0, 0, 0, None) >>

OnMessageSeq ==
    /\ mqtt_client /\ connected
    /\ seq_idx <= Len(StatusSeq(100))
    /\ seq_idx > 1 => (cmds # <<>> /\ pc \in {"monitor", "monitor_body"})
    /\ \E p \in FinishPercents : Publish(StatusSeq(p)[seq_idx])
    /\ UNCHANGED <<msg, rpc, observer_arg>>
    /\ seq_idx' = seq_idx + 1
    /\ UNCHANGED <<gwVars, stop_result>>

NextSeq == SignalHandler \/ OnConnect \/ OnDisconnect \/ OnMessageSeq
              \/ Main \/ ProcessJob \/ MonitorPrint

SpecSeq == Init /\ [][NextSeq]_vars

----------------------------------------------------------------------------
(* Leftover runs: the printer publishes status documents of every kind      *)
(* until the job's start command (project_file) is published and is silent  *)
(* from then to the end of the job cycle, so that every snapshot            *)
(* monitor_print reads dates from before the start.  Everything else is as  *)
(* in Spec.                                                                 *)

Started == \E i \in DOMAIN cmds : cmds[i] = "project_file"

OnMessageBeforeStart == ~Started /\ OnMessage

NextStale == SignalHandler \/ OnConnect \/ OnDisconnect \/ OnMessageBeforeStart
                \/ Main \/ ProcessJob \/ MonitorPrint

SpecStale == Init /\ [][NextStale]_vars

----------------------------------------------------------------------------
(* Printing runs: the printer is idle until the job's start command          *)
(* (project_file) is published and prints from then on, at 55%, without an  *)
(* error.  While idle it publishes complete documents; while printing it    *)
(* publishes complete documents and partial ones, which hold any subset of  *)
(* the keys.  Everything else is as in Spec.                                *)

IdleSections ==
    {d \in PrintSections : /\ d.keys = Keys /\ d.gcode_state = "IDLE"
                           /\ d.mc_percent = 0 /\ ~Truthy(d.print_error)}

PrintingSections ==
    {d \in PrintSections : /\ "gcode_state" \in d.keys => d.gcode_state = "RUNNING"
                           /\ "mc_percent" \in d.keys => d.mc_percent = 55
                           /\ "print_error" \in d.keys => ~Truthy(d.print_error)}

OnMessagePrinting ==
    /\ mqtt_client /\ connected
    /\ \E d \in (IF Started THEN PrintingSections ELSE IdleSections) :
          Publish(ParseStatus(d))
    /\ UNCHANGED <<seq_idx, gwVars, stop_result, msg, rpc, observer_arg>>

NextPrinting == SignalHandler \/ OnConnect \/ OnDisconnect \/ OnMessagePrinting
                   \/ Main \/ ProcessJob \/ MonitorPrint

SpecPrinting == Init /\ [][NextPrinting]_vars

----------------------------------------------------------------------------
(* Idle runs: the printer may ignore a start command, and then stays idle   *)
(* at 0% and keeps publishing complete documents saying so, for as long as  *)
(* it likes; or it carries the command out and reports the print finished,  *)
(* which it does not take back during the job cycle.                        *)
(* Nobody asks for shutdown.  The control thread always gets to run: a      *)
(* gateway call, a transfer or a sleep it has begun returns (or raises),    *)
(* which is weak fairness of its steps.  Everything else is as in Spec.     *)

OnMessageIdle ==
    /\ mqtt_client /\ connected
    /\ \/ status.state # "FINISH" /\ \E d \in IdleSections : Publish(ParseStatus(d))
       \/ Started /\ Publish(PrinterStatus("FINISH", 100, 0, 0, 0, None))
    /\ UNCHANGED <<seq_idx, gwVars, stop_result, msg, rpc, observer_arg>>

Control == Main \/ ProcessJob \/ MonitorPrint

NextIdle == OnConnect \/ OnDisconnect \/ OnMessageIdle \/ Control

SpecIdle == Init /\ [][NextIdle]_vars /\ WF_vars(Control)

----------------------------------------------------------------------------
(* Fair runs: Spec with the control thread always getting to run (a call,   *)
(* a transfer or a sleep it has begun returns or raises).  Nothing is       *)
(* assumed of the signal handler and of the receive thread.                 *)

SpecFair == Init /\ [][Next]_vars /\ WF_vars(Control)

----------------------------------------------------------------------------
(* Caller runs: the controller against an idle printer, with the two        *)
(* BambuPrinter calls main.py leaves unused made as well: stop_print() at   *)
(* any time, and connect() once more between two polls.                     *)

MaxStops == 1

Stops == Cardinality({i \in DOMAIN cmds : cmds[i] = "stop"})

\* stop_print publishing whenever a client object exists
StopPrint_PublishesUnconnected ==
    /\ pc # "exited" /\ Stops < MaxStops
    /\ IF ~mqtt_client
          THEN stop_result' = "False" /\ UNCHANGED cmds
          ELSE stop_result' = "True" /\ cmds' = Append(cmds, "stop")
    /\ UNCHANGED <<pc, shutdown_requested, printerVars, job, file, st, exc, monVars,
                   calls, downloaded, uploaded, ftp, seen_nonzero, last_attempt, result,
                   exit_cause, faults, jobs_fetched, seq_idx, gwVars, chanVars>>

\* BambuPrinter.stop_print lines 343-362: False without a connected client,
\* with nothing published; otherwise the stop command is published and True
\* is returned
StopPrint ==
    /\ pc # "exited" /\ Stops < MaxStops
    /\ IF ~mqtt_client \/ ~connected
          THEN stop_result' = "False" /\ UNCHANGED cmds
          ELSE stop_result' = "True" /\ cmds' = Append(cmds, "stop")
    /\ UNCHANGED <<pc, shutdown_requested, printerVars, job, file, st, exc, monVars,
                   calls, downloaded, uploaded, ftp, seen_nonzero, last_attempt, result,
                   exit_cause, faults, jobs_fetched, seq_idx, gwVars, chanVars>>

\* BambuPrinter.connect line 161, called on the session main() holds
ConnectAgain ==
    /\ pc = "main_loop"
    /\ pc' = "connect"
    /\ UNCHANGED <<shutdown_requested, printerVars, job, file, st, exc, monVars,
                   histVars, exit_cause, faults, jobs_fetched, seq_idx, gwVars,
                   stop_result, chanVars>>

NextApi == NextIdle \/ StopPrint \/ ConnectAgain

SpecApi == Init /\ [][NextApi]_vars

----------------------------------------------------------------------------
(* Receiver runs: the receive thread of the session alone, from the state   *)
(* in which connect() has just returned, handling up to MaxMessages         *)
(* messages of every kind; a status callback may get registered.            *)

InitRecv ==
    /\ pc = "main_loop"
    /\ shutdown_requested = FALSE
    /\ mqtt_client = TRUE
    /\ connected = TRUE
    /\ status = NoStatus
    /\ job = NoJob
    /\ file = FALSE
    /\ st = NoStatus
    /\ exc = None
    /\ last_progress = -1
    /\ last_progress_update = 0
    /\ now = Epoch
    /\ calls = <<>>
    /\ cmds = <<>>
    /\ downloaded = "no"
    /\ uploaded = "no"
    /\ ftp = NoUpload
    /\ seen_nonzero = FALSE
    /\ last_attempt = 0
    /\ result = "none"
    /\ exit_cause = "none"
    /\ faults = 0
    /\ jobs_fetched = 0
    /\ seq_idx = 1
    /\ msg = NoMsg
    /\ on_status_update = FALSE
    /\ connect_result = "returned"
    /\ waited = 0
    /\ rpc = "idle"
    /\ status_lock = "free"
    /\ observer_arg = NoStatus
    /\ db = [id \in JobIds |-> NewJob]
    /\ reply = NoReply
    /\ in_flight = [r \in Requests |-> NoRequest]
    /\ handed_out = <<>>
    /\ stop_result = None

NextRecv == OnConnect \/ OnDisconnect \/ OnMessageAny \/ SetStatusCallback
               \/ ObserverReturns \/ StatusAcquire \/ StatusRelease

SpecRecv == InitRecv /\ [][NextRecv]_vars

----------------------------------------------------------------------------
(* Gateway runs: the handlers of the printer API and of the admin API on    *)
(* the jobs table, one request at a time, for every job id and in every     *)
(* order.  The progress requests are the controller's: it sends the         *)
(* progress of the snapshot it holds, and the printer reports percentages   *)
(* in and out of 0..100.  The session is the one connect() returned.        *)

\* the time of the next approval: later than every approval made
NextStamp ==
    1 + (CHOOSE m \in 0..Cardinality(DOMAIN db) :
            /\ \A id \in DOMAIN db : db[id].approved_at <= m
            /\ m = 0 \/ \E id \in DOMAIN db : db[id].approved_at = m)

\* what no request touches: the controller and the printer session
ControllerFrame ==
    UNCHANGED <<pc, shutdown_requested, printerVars, job, file, st, exc, monVars,
                histVars, exit_cause, faults, jobs_fetched, seq_idx, chanVars,
                stop_result>>

\* what a handler that runs in one step and hands out no job leaves alone
GwFrame == ControllerFrame /\ UNCHANGED <<in_flight, handed_out>>

\* a request answered with an error: the table is left as it is
Reject(op, job_id, progress, code) ==
    /\ reply' = Reply(op, job_id, progress, code)
    /\ UNCHANGED db

\* admin.py approve_job
approve_job(job_id, message) ==
    /\ IF job_id \notin DOMAIN db THEN Reject("approve", job_id, Null, 404)
       ELSE IF db[job_id].status # "submitted" THEN Reject("approve", job_id, Null, 400)
       ELSE /\ db' = [db EXCEPT ![job_id].status = "approved",
                                ![job_id].approved_at = NextStamp,
                                ![job_id].status_message =
                                    IF message # None THEN message ELSE @]
            /\ reply' = Reply("approve", job_id, Null, 200)
    /\ GwFrame

\* admin.py reject_job
reject_job(job_id, message) ==
    /\ IF job_id \notin DOMAIN db THEN Reject("reject", job_id, Null, 404)
       ELSE IF db[job_id].status # "submitted" THEN Reject("reject", job_id, Null, 400)
       ELSE /\ db' = [db EXCEPT ![job_id].status = "rejected",
                                ![job_id].status_message =
                                    IF message # None THEN message ELSE @]
            /\ reply' = Reply("reject", job_id, Null, 200)
    /\ GwFrame

\* admin.py queue_job
queue_job(job_id) ==
    /\ IF job_id \notin DOMAIN db THEN Reject("queue", job_id, Null, 404)
       ELSE IF db[job_id].status # "approved" THEN Reject("queue", job_id, Null, 400)
       ELSE /\ db' = [db EXCEPT ![job_id].status = "queued"]
            /\ reply' = Reply("queue", job_id, Null, 200)
    /\ GwFrame

\* printer.py get_next_job: the approved job approved first, marked queued;
\* null when no job is approved
get_next_job ==
    /\ LET approved == {id \in DOMAIN db : db[id].status = "approved"}
       IN  IF approved = {}
              THEN Reject("next", UnknownId, Null, 200) /\ UNCHANGED handed_out
              ELSE LET first == CHOOSE id \in approved :
                                   \A other \in approved :
                                      db[id].approved_at <= db[other].approved_at
                   IN  /\ db' = [db EXCEPT ![first].status = "queued"]
                       /\ reply' = Reply("next", first, Null, 200)
                       /\ handed_out' = Append(handed_out, first)
    /\ ControllerFrame /\ UNCHANGED in_flight

\* printer.py start_job
start_job(job_id) ==
    /\ IF job_id \notin DOMAIN db THEN Reject("start", job_id, Null, 404)
       ELSE IF db[job_id].status # "queued" THEN Reject("start", job_id, Null, 400)
       ELSE /\ db' = [db EXCEPT ![job_id].status = "printing",
                                ![job_id].print_progress = <<0>>]
            /\ reply' = Reply("start", job_id, Null, 200)
    /\ GwFrame

\* update_job_progress without the test of the job's status
update_job_progress_AnyStatus(job_id, progress) ==
    /\ IF job_id \notin DOMAIN db THEN Reject("progress", job_id, <<progress>>, 404)
       ELSE IF progress < 0 \/ progress > 100
               THEN Reject("progress", job_id, <<progress>>, 400)
       ELSE /\ db' = [db EXCEPT ![job_id].print_progress = <<progress>>]
            /\ reply' = Reply("progress", job_id, <<progress>>, 200)
    /\ GwFrame

\* update_job_progress without the test of the range
update_job_progress_AnyValue(job_id, progress) ==
    /\ IF job_id \notin DOMAIN db THEN Reject("progress", job_id, <<progress>>, 404)
       ELSE IF db[job_id].status # "printing"
               THEN Reject("progress", job_id, <<progress>>, 400)
       ELSE /\ db' = [db EXCEPT ![job_id].print_progress = <<progress>>]
            /\ reply' = Reply("progress", job_id, <<progress>>, 200)
    /\ GwFrame

\* printer.py update_job_progress
update_job_progress(job_id, progress) ==
    /\ IF job_id \notin DOMAIN db THEN Reject("progress", job_id, <<progress>>, 404)
       ELSE IF db[job_id].status # "printing"
               THEN Reject("progress", job_id, <<progress>>, 400)
       ELSE IF progress < 0 \/ progress > 100
               THEN Reject("progress", job_id, <<progress>>, 400)
       ELSE /\ db' = [db EXCEPT ![job_id].print_progress = <<progress>>]
            /\ reply' = Reply("progress", job_id, <<progress>>, 200)
    /\ GwFrame

\* complete_job leaving print_progress as the last report left it
complete_job_KeepsProgress(job_id) ==
    /\ IF job_id \notin DOMAIN db THEN Reject("complete", job_id, Null, 404)
       ELSE IF db[job_id].status # "printing" THEN Reject("complete", job_id, Null, 400)
       ELSE /\ db' = [db EXCEPT ![job_id].status = "done",
                                ![job_id].completed_at = TRUE]
            /\ reply' = Reply("complete", job_id, Null, 200)
    /\ GwFrame


\* printer.py complete_job
complete_job(job_id) ==
    /\ IF job_id \notin DOMAIN db THEN Reject("complete", job_id, Null, 404)
       ELSE IF db[job_id].status # "printing" THEN Reject("complete", job_id, Null, 400)
       ELSE /\ db' = [db EXCEPT ![job_id].status = "done",
                                ![job_id].print_progress = <<100>>,
                                ![job_id].completed_at = TRUE]
            /\ reply' = Reply("complete", job_id, Null, 200)
    /\ GwFrame

\* fail_job without the test of the job's status
fail_job_AnyStatus(job_id, error_message) ==
    /\ IF job_id \notin DOMAIN db THEN Reject("fail", job_id, Null, 404)
       ELSE /\ db' = [db EXCEPT ![job_id].status = "failed",
                                ![job_id].status_message = error_message,
                                ![job_id].completed_at = TRUE]
            /\ reply' = Reply("fail", job_id, Null, 200)
    /\ GwFrame


\* printer.py fail_job
fail_job(job_id, error_message) ==
    /\ IF job_id \notin DOMAIN db THEN Reject("fail", job_id, Null, 404)
       ELSE IF db[job_id].status \notin {"queued", "printing"}
               THEN Reject("fail", job_id, Null, 400)
       ELSE /\ db' = [db EXCEPT ![job_id].status = "failed",
                                ![job_id].status_message = error_message,
                                ![job_id].completed_at = TRUE]
            /\ reply' = Reply("fail", job_id, Null, 200)
    /\ GwFrame

\* the snapshots of a running printer, with any of the percentages
GwSnapshots ==
    {ParseStatus(d) : d \in Sections({"RUNNING"}, PrinterPercents, {0}, {Zero})}

\* the printer publishes a status document
OnMessageGw ==
    /\ mqtt_client /\ connected
    /\ \E s \in GwSnapshots : Publish(s)
    /\ UNCHANGED <<seq_idx, gwVars, stop_result, msg, rpc, observer_arg>>

\* main.py line 116 and APIClient.update_progress: the controller sends the
\* progress of the snapshot it read, as it is
UpdateProgress ==
    /\ status # NoStatus
    /\ \E job_id \in JobIds \cup {UnknownId} : update_job_progress(job_id, status.progress)

Admin ==
    \E job_id \in JobIds \cup {UnknownId} :
       \/ \E message \in AdminMessages : approve_job(job_id, message)
       \/ \E message \in AdminMessages : reject_job(job_id, message)
       \/ queue_job(job_id)

PrinterApi ==
    \/ get_next_job
    \/ \E job_id \in JobIds \cup {UnknownId} :
          \/ start_job(job_id)
          \/ complete_job(job_id)
          \/ fail_job(job_id, "Print stopped unexpectedly")
    \/ UpdateProgress

NextGw == OnMessageGw \/ Admin \/ PrinterApi

SpecGw == InitRecv /\ [][NextGw]_vars

----------------------------------------------------------------------------
(* Concurrent requests: the jobs table under requests whose select and      *)
(* commit are separate steps (every handler awaits between the two), with   *)
(* up to MaxRequests of them in flight and up to MaxRows jobs submitted.    *)

MaxRows == 2

\* jobs.py create_job lines 37-46: a new row in submitted status
create_job ==
    /\ Cardinality(DOMAIN db) < MaxRows
    /\ LET id == Cardinality(DOMAIN db) + 1
       IN  /\ db' = [i \in DOMAIN db \cup {id} |-> IF i = id THEN NewJob ELSE db[i]]
           /\ reply' = Reply("create", id, Null, 200)
    /\ GwFrame

\* the approved rows in the order of the query of get_next_job
Oldest(approved) ==
    CHOOSE id \in approved :
       \A other \in approved : db[id].approved_at <= db[other].approved_at

\* printer.py get_next_job lines 26-35: the select; no row, the answer is null
get_next_job_select(r) ==
    /\ in_flight[r] = NoRequest
    /\ LET approved == {id \in DOMAIN db : db[id].status = "approved"}
       IN  IF approved = {}
              THEN /\ reply' = Reply("next", UnknownId, Null, 200)
                   /\ UNCHANGED in_flight
              ELSE /\ in_flight' = [in_flight EXCEPT
                                      ![r] = [op |-> "next", job_id |-> Oldest(approved)]]
                   /\ UNCHANGED reply
    /\ UNCHANGED <<db, handed_out>>
    /\ ControllerFrame

\* printer.py get_next_job lines 37-41: the row the select returned is
\* written as queued, whatever it is by now, and returned
get_next_job_commit(r) ==
    /\ in_flight[r].op = "next"
    /\ LET id == in_flight[r].job_id
       IN  /\ db' = [db EXCEPT ![id].status = "queued"]
           /\ reply' = Reply("next", id, Null, 200)
           /\ handed_out' = Append(handed_out, id)
    /\ in_flight' = [in_flight EXCEPT ![r] = NoRequest]
    /\ ControllerFrame

\* admin.py queue_job lines 119-131: the select and the two tests
queue_job_select(r, job_id) ==
    /\ in_flight[r] = NoRequest
    /\ IF job_id \notin DOMAIN db
          THEN reply' = Reply("queue", job_id, Null, 404) /\ UNCHANGED in_flight
       ELSE IF db[job_id].status # "approved"
          THEN reply' = Reply("queue", job_id, Null, 400) /\ UNCHANGED in_flight
       ELSE /\ in_flight' = [in_flight EXCEPT ![r] = [op |-> "queue", job_id |-> job_id]]
            /\ UNCHANGED reply
    /\ UNCHANGED <<db, handed_out>>
    /\ ControllerFrame

\* admin.py queue_job lines 133-136
queue_job_commit(r) ==
    /\ in_flight[r].op = "queue"
    /\ LET id == in_flight[r].job_id
       IN  /\ db' = [db EXCEPT ![id].status = "queued"]
           /\ reply' = Reply("queue", id, Null, 200)
    /\ in_flight' = [in_flight EXCEPT ![r] = NoRequest]
    /\ UNCHANGED handed_out
    /\ ControllerFrame

Approve == \E job_id \in DOMAIN db : approve_job(job_id, None)

Fetch == \E r \in Requests : get_next_job_select(r) \/ get_next_job_commit(r)

Queue ==
    \E r \in Requests :
       \/ \E job_id \in DOMAIN db : queue_job_select(r, job_id)
       \/ queue_job_commit(r)

NextRace == create_job \/ Approve \/ Fetch \/ Queue

SpecRace == InitRecv /\ [][NextRace]_vars


----------------------------------------------------------------------------
(* System runs: the controller against the gateway.  A call of the          *)
(* controller is handled by the gateway in the same step and returns if the *)
(* answer is a 2xx and raises otherwise (raise_for_status); no call fails   *)
(* for another reason.  Admins approve, reject and queue jobs meanwhile.    *)

\* the answers with fail_job refusing a job that is not printing yet
Served_FailNeedsPrinting(d, op, id, pct, message) ==
    CASE op = "start" ->
            IF d[id].status # "queued" THEN [db |-> d, code |-> 400]
            ELSE [db |-> [d EXCEPT ![id].status = "printing",
                                   ![id].print_progress = <<0>>], code |-> 200]
      [] op = "progress" ->
            IF d[id].status # "printing" \/ pct < 0 \/ pct > 100
               THEN [db |-> d, code |-> 400]
            ELSE [db |-> [d EXCEPT ![id].print_progress = <<pct>>], code |-> 200]
      [] op = "complete" ->
            IF d[id].status # "printing" THEN [db |-> d, code |-> 400]
            ELSE [db |-> [d EXCEPT ![id].status = "done",
                                   ![id].print_progress = <<100>>,
                                   ![id].completed_at = TRUE], code |-> 200]
      [] OTHER ->
            IF d[id].status # "printing" THEN [db |-> d, code |-> 400]
            ELSE [db |-> [d EXCEPT ![id].status = "failed",
                                   ![id].status_message = message,
                                   ![id].completed_at = TRUE], code |-> 200]

\* printer.py start_job, update_job_progress, complete_job and fail_job
\* (lines 61-172) on table d for the existing row id: the table after the
\* request and the status code of the answer
Served(d, op, id, pct, message) ==
    CASE op = "start" ->
            IF d[id].status # "queued" THEN [db |-> d, code |-> 400]
            ELSE [db |-> [d EXCEPT ![id].status = "printing",
                                   ![id].print_progress = <<0>>], code |-> 200]
      [] op = "progress" ->
            IF d[id].status # "printing" \/ pct < 0 \/ pct > 100
               THEN [db |-> d, code |-> 400]
            ELSE [db |-> [d EXCEPT ![id].print_progress = <<pct>>], code |-> 200]
      [] op = "complete" ->
            IF d[id].status # "printing" THEN [db |-> d, code |-> 400]
            ELSE [db |-> [d EXCEPT ![id].status = "done",
                                   ![id].print_progress = <<100>>,
                                   ![id].completed_at = TRUE], code |-> 200]
      [] OTHER ->
            IF d[id].status \notin {"queued", "printing"} THEN [db |-> d, code |-> 400]
            ELSE [db |-> [d EXCEPT ![id].status = "failed",
                                   ![id].status_message = message,
                                   ![id].completed_at = TRUE], code |-> 200]

\* job.id of the job process_job is working on: the row get_next_job
\* returned last
CurrentRow == handed_out[Len(handed_out)]

\* main line 205 against printer.py get_next_job
SysGetNextJob ==
    /\ LET approved == {id \in DOMAIN db : db[id].status = "approved"}
       IN  IF approved = {}
              THEN /\ GetNextJobReturns("null")
                   /\ reply' = Reply("next", UnknownId, Null, 200)
                   /\ UNCHANGED <<db, handed_out>>
              ELSE /\ GetNextJobReturns("job")
                   /\ db' = [db EXCEPT ![Oldest(approved)].status = "queued"]
                   /\ reply' = Reply("next", Oldest(approved), Null, 200)
                   /\ handed_out' = Append(handed_out, Oldest(approved))
    /\ UNCHANGED in_flight

\* main line 70 against printer.py start_job
SysStartJob ==
    /\ pc = "start_job"
    /\ LET r == Served(db, "start", CurrentRow, -1, None)
       IN  /\ StartJobReturns(r.code = 200)
           /\ db' = r.db
           /\ reply' = Reply("start", CurrentRow, Null, r.code)
    /\ UNCHANGED <<in_flight, handed_out>>

\* main lines 86-91 against printer.py fail_job
SysExceptHandler ==
    /\ pc = "except"
    /\ LET r == Served(db, "fail", CurrentRow, -1, exc)
       IN  /\ ExceptHandlerReturns(r.code = 200)
           /\ db' = r.db
           /\ reply' = Reply("fail", CurrentRow, Null, r.code)
    /\ UNCHANGED <<in_flight, handed_out>>

\* one tick of monitor_print against printer.py update_job_progress and
\* complete_job or fail_job, in the order of the calls
SysMonitorBody ==
    /\ pc = "monitor_body"
    /\ LET due == ReportDue(st, last_progress, last_progress_update, now)
           r1  == IF due THEN Served(db, "progress", CurrentRow, st.progress, None)
                         ELSE [db |-> db, code |-> 200]
           ok  == r1.code = 200
           v   == Verdict(st, IF due /\ ok THEN st.progress ELSE last_progress)
           r2  == IF v[1] # None THEN Served(r1.db, v[1], CurrentRow, -1, v[2])
                                 ELSE [db |-> r1.db, code |-> 200]
       IN  /\ MonitorBodyReturns(ok, r2.code = 200)
           /\ db' = r2.db
           /\ reply' = IF v[1] # None THEN Reply(v[1], CurrentRow, Null, r2.code)
                       ELSE IF due THEN Reply("progress", CurrentRow, <<st.progress>>, r1.code)
                       ELSE reply
    /\ UNCHANGED <<in_flight, handed_out>>

SysMain == Validate \/ Connect \/ ConnectWait \/ ConnectCheck \/ MainLoop \/ SysGetNextJob
              \/ PollSleep \/ Finally

SysProcessJob == Download \/ Upload \/ SysStartJob \/ StartPrint \/ StartPrintPublish
                    \/ Remove \/ SysExceptHandler

SysMonitorPrint == MonitorLoop \/ SysMonitorBody

SysControl == SysMain \/ SysProcessJob \/ SysMonitorPrint

\* the admin requests that are accepted (a refused one leaves the table as
\* it was), without a message
SysAdmin ==
    /\ \E job_id \in DOMAIN db :
          approve_job(job_id, None) \/ reject_job(job_id, None) \/ queue_job(job_id)
    /\ reply'.code = 200

NextSys == SignalHandler \/ Receiver \/ SysAdmin \/ SysControl

SpecSys == Init /\ [][NextSys]_vars


\* Polling runs: the system with a printer that stays idle (it reports IDLE
\* at 0%, and FINISH once a print was started), no signal arriving and the
\* control thread always getting to run.
NextPoll == OnConnect \/ OnDisconnect \/ OnMessageIdle \/ SysAdmin \/ SysControl

SpecPoll == Init /\ [][NextPoll]_vars /\ WF_vars(SysControl)


----------------------------------------------------------------------------
(* Properties *)

CallsOf(op) == {i \in DOMAIN calls : calls[i].op = op}
Terminal == CallsOf("complete") \cup CallsOf("fail")
LastCall(cs) == cs[Len(cs)]
\* the job cycle is over: process_job has returned to main
CycleEnded == pc = "poll_sleep" /\ result # "none"

\* C1: a job whose download failed sees no upload, no start_job and no
\* printer command; a job whose upload_file returned False sees no start_job
\* and no printer command; in both cases fail_job is attempted at most once
\* while the cycle runs and exactly once when it has ended, and
\* complete_job never.
C1_FailedTransferSkipsStart ==
    /\ downloaded = "failed" => uploaded = "no"
    /\ (downloaded = "failed" \/ uploaded = "failed") =>
          /\ CallsOf("start") = {} /\ cmds = <<>>
          /\ CallsOf("complete") = {} /\ CallsOf("progress") = {}
          /\ Cardinality(CallsOf("fail")) <= 1
          /\ pc \notin {"start_job", "start_print", "start_print_publish",
                       "monitor", "monitor_body"}
          /\ CycleEnded => Cardinality(CallsOf("fail")) = 1

C1_Witness ==
    /\ CycleEnded /\ downloaded = "ok" /\ uploaded = "failed"
    /\ Len(calls) = 1 /\ calls[1].op = "fail"

\* C2: a monitoring tick that reads an Idle snapshot (without an error code)
\* after an earlier tick of the job read a nonzero progress calls
\* fail_job("stopped unexpectedly") and leaves the monitoring loop.
C2_IdleAfterProgressFailsJob ==
    [][(/\ pc = "monitor_body" /\ pc' # pc
        /\ st.state = "IDLE" /\ st.error_code = None /\ seen_nonzero)
       => (/\ pc' = "remove" /\ result' = "failed"
           /\ LastCall(calls').op = "fail"
           /\ LastCall(calls').reason = "stopped unexpectedly")]_vars

\* C4: the percentages passed to update_progress for one job never decrease.
C4_ReportsNonDecreasing ==
    \A i, j \in CallsOf("progress") : i < j => calls[i].pct <= calls[j].pct

\* C5: two consecutive update_progress calls of one job are at least
\* progress_update_interval_seconds apart, whether or not the earlier one failed.
C5_ReportsSpacedByInterval ==
    [][(pc = "monitor_body" /\ last_attempt # 0 /\ last_attempt' # last_attempt)
       => last_attempt' - last_attempt >= ProgressUpdateInterval]_vars

\* C6: when the monitoring loop finds the shutdown flag set it returns
\* without a gateway call; a cycle that ended this way made no complete_job
\* or fail_job call, and the temp file is gone when process_job has returned.
C6_ShutdownLeavesJobUnmarked ==
    /\ [](result = "shutdown" =>
            /\ Terminal = {}
            /\ pc \in {"remove", "poll_sleep"}
            /\ pc = "poll_sleep" => ~file)
    /\ [][(pc = "monitor" /\ shutdown_requested /\ pc' # pc)
          => (pc' = "remove" /\ result' = "shutdown" /\ calls' = calls)]_vars

C6_Witness ==
    /\ CycleEnded /\ result = "shutdown" /\ ~file
    /\ \E i \in CallsOf("progress") : calls[i].ok

\* C7: when a job cycle whose download succeeded ends, the temp file is deleted.
C7_TempFileDeleted == (CycleEnded /\ downloaded = "ok") => ~file

\* C8: a fault inside a job cycle never leaves process_job (the only
\* exception main's loop handler sees comes from get_next_job), the cycle
\* ends in the poll sleep and the loop condition is evaluated again; main
\* stops only for a configuration failure, a connection failure or shutdown.
C8_JobFaultsStayInLoop ==
    /\ [](/\ pc = "main_except" => (exc = "get_next_job error" /\ job = NoJob)
          /\ pc \in {"finally", "exited"} =>
                /\ exit_cause \in {"config", "connect", "shutdown"}
                /\ exit_cause = "shutdown" => shutdown_requested
                /\ job = NoJob /\ exc = None
          /\ pc \notin {"finally", "exited"} => exit_cause = "none")
    /\ [][/\ pc \in JobPcs => pc' \in JobPcs \cup {"poll_sleep"}
          /\ pc = "except" /\ pc' # pc => pc' = "poll_sleep" /\ exc' = None
          /\ pc = "poll_sleep" /\ pc' # pc => pc' = "main_loop"]_vars

C8_Witness ==
    /\ CycleEnded /\ result = "failed" /\ exit_cause = "none"
    /\ LastCall(calls).op = "fail" /\ ~LastCall(calls).ok

\* C9 as claimed: a tick whose snapshot has state FAILED or carries an error
\* code, whatever its state, calls fail_job with the code (or "unknown") and
\* ends the cycle as failed.
C9_AnyErrorFailsJob ==
    [][(/\ pc = "monitor_body" /\ pc' # pc
        /\ (st.state = "FAILED" \/ st.error_code # None))
       => (/\ pc' = "remove" /\ result' = "failed"
           /\ LastCall(calls').op = "fail"
           /\ LastCall(calls').reason =
                 IF st.error_code # None THEN st.error_code ELSE "unknown")]_vars

\* C9 amended: a tick whose snapshot is not FINISH and has state FAILED or
\* carries an error code calls fail_job with the code (or "unknown") and ends
\* the cycle as failed; a FINISH snapshot, with or without an error code,
\* gets complete_job and ends the cycle as completed.
C9_ErrorFailsUnlessFinished ==
    [][(pc = "monitor_body" /\ pc' # pc) =>
         /\ (st.state # "FINISH" /\ (st.state = "FAILED" \/ st.error_code # None))
            => (/\ pc' = "remove" /\ result' = "failed"
                /\ LastCall(calls').op = "fail"
                /\ LastCall(calls').reason =
                      IF st.error_code # None THEN st.error_code ELSE "unknown")
         /\ st.state = "FINISH"
            => (/\ pc' = "remove" /\ result' = "completed"
                /\ LastCall(calls').op = "complete")]_vars

C9_Witness ==
    /\ pc = "remove" /\ result = "failed"
    /\ LastCall(calls).op = "fail" /\ LastCall(calls).reason \in ErrorCodes

\* C10 as claimed: whenever get_next_job is about to be called the snapshot
\* exists and its state is IDLE, FINISH or FAILED, and no job is in progress.
C10_FetchOnlyWhenIdle ==
    pc = "get_next_job" => (status # NoStatus /\ IsIdle(status) /\ job = NoJob)

\* C10 amended: get_next_job is called only after is_idle() returned True in
\* the same loop iteration, that is the snapshot it read existed and had
\* state IDLE, FINISH or FAILED (the receive thread may have replaced the
\* snapshot since, but one exists); no job is in progress then, and a job is
\* held only inside process_job.
C10_FetchOnlyAfterIdleRead ==
    /\ pc = "get_next_job" =>
          /\ st # NoStatus /\ IsIdle(st)
          /\ status # NoStatus
          /\ job = NoJob
    /\ job # NoJob => pc \in JobPcs
    /\ status = NoStatus => jobs_fetched = 0

C10_Witness == pc = "get_next_job" /\ st.state = "FINISH" /\ status.state = "RUNNING"


\* the gateway calls of a cycle so far have the shape: start_job, then
\* update_progress calls related by Rel(earlier, later), then (only as the
\* last call of a completed cycle, after at least one report) complete_job
CompletedShape(Rel(_, _)) ==
    /\ calls # <<>> => calls[1].op = "start"
    /\ \A i \in 2..Len(calls) :
          \/ calls[i].op = "progress"
          \/ /\ calls[i].op = "complete" /\ i = Len(calls) /\ i >= 3
             /\ result = "completed"
    /\ \A i \in 2..(Len(calls) - 1) :
          calls[i + 1].op = "progress" => Rel(calls[i], calls[i + 1])
    /\ (CycleEnded /\ result = "completed") => LastCall(calls).op = "complete"

Increasing(a, b) == a.pct < b.pct
IncreasingOrRetry(a, b) == a.pct < b.pct \/ (a.pct = b.pct /\ ~a.ok)

\* C3 as claimed: in the scenario, a cycle that is not failed or cut by
\* shutdown makes exactly these gateway calls: one start_job, then at least
\* one update_progress with strictly increasing percentages, then one
\* complete_job.
C3_ExactCallsStrictlyIncreasing ==
    result \in {"none", "completed"} => CompletedShape(Increasing)

\* C3 amended: ... then at least one update_progress whose percentages never
\* decrease and repeat only when the call just before, with the same
\* percentage, failed, then one complete_job.
C3_ExactCallsIncreasingOrRetried ==
    result \in {"none", "completed"} => CompletedShape(IncreasingOrRetry)

C3_Witness ==
    /\ CycleEnded /\ result = "completed"
    /\ Len(calls) = 4 /\ calls[2].pct = 10 /\ calls[3].pct = 55
    /\ calls[4].op = "complete"

----------------------------------------------------------------------------
\* the first gateway call of the cycle is a start_job that returned
StartedOk == calls # <<>> /\ calls[1].op = "start" /\ calls[1].ok
\* the step made a gateway call
CallMade == Len(calls') > Len(calls)
\* the first gateway call a step made
NewCall == calls'[Len(calls) + 1]

\* C11: nothing is published to the printer and no update_progress is made
\* unless the job's start_job returned; publishing project_file enters
\* monitor_print in the same step, whatever the snapshot says and without
\* touching it; update_progress is called only from monitor_print, after the
\* start command, and before the job's one complete_job or fail_job call.
C11_StartedThenPrintThenReports ==
    /\ [](/\ (cmds # <<>> \/ pc \in {"start_print", "start_print_publish",
                                     "monitor", "monitor_body"}) => StartedOk
          /\ Cardinality(CallsOf("start")) <= 1
          /\ Cardinality(Terminal) <= 1
          /\ \A i \in CallsOf("progress") :
                /\ StartedOk /\ i > 1
                /\ Len(cmds) = 2 /\ cmds[2] = "project_file"
                /\ \A t \in Terminal : i < t)
    /\ [][/\ (pc = "start_print_publish" /\ pc' # pc) =>
                (/\ pc' = "monitor" /\ cmds' = Append(cmds, "project_file")
                 /\ status' = status /\ calls' = calls)
          /\ (CallMade /\ NewCall.op = "progress") => pc = "monitor_body"]_vars

C11_Witness ==
    /\ pc = "remove" /\ result = "completed" /\ StartedOk
    /\ cmds = <<"clean_print_error", "project_file">>
    /\ CallsOf("progress") # {} /\ LastCall(calls).op = "complete"

\* C12: start_print on a connected session publishes clean_print_error and,
\* after its sleep, project_file; project_file is never published without
\* clean_print_error right before it.
C12_ClearErrorBeforeStart ==
    /\ [](\A i \in DOMAIN cmds :
             cmds[i] = "project_file" => (i > 1 /\ cmds[i - 1] = "clean_print_error"))
    /\ [][/\ (pc = "start_print" /\ mqtt_client /\ connected /\ pc' # pc) =>
                (pc' = "start_print_publish" /\ cmds' = Append(cmds, "clean_print_error"))
          /\ (pc = "start_print_publish" /\ pc' # pc) =>
                cmds' = Append(cmds, "project_file")
          /\ cmds' # cmds => pc \in {"start_print", "start_print_publish", "poll_sleep"}]_vars

C12_Witness ==
    /\ pc = "monitor" /\ ~connected
    /\ cmds = <<"clean_print_error", "project_file">>

\* C13: for every snapshot, the absent one and those with other states
\* included, is_idle and is_printing are not both true, is_idle is true
\* exactly for the states IDLE, FINISH, FAILED and is_printing exactly for
\* RUNNING and PAUSE.
C13_IdleAndPrintingPartition ==
    /\ ~(IsIdle(status) /\ IsPrinting(status))
    /\ IsIdle(status) <=> status.state \in {"IDLE", "FINISH", "FAILED"}
    /\ IsPrinting(status) <=> status.state \in {"RUNNING", "PAUSE"}
    /\ status = NoStatus => (~IsIdle(status) /\ ~IsPrinting(status))

C13_Witness ==
    /\ status.state = "PREPARE" /\ ~IsIdle(status) /\ ~IsPrinting(status)
    /\ msg.n = 2

\* C14: after a status document was handled the snapshot holds the
\* document's values, with state IDLE, progress 0, layers 0, remaining time
\* 0 for the keys it lacks and no error code when print_error is missing, 0
\* or empty; handling the same document again leaves the snapshot as it is.
C14_DecodeWithDefaults ==
    /\ [](msg.kind = "status" =>
            LET d == msg.print IN
            /\ status.state = IF "gcode_state" \in d.keys THEN d.gcode_state ELSE "IDLE"
            /\ status.progress = IF "mc_percent" \in d.keys THEN d.mc_percent ELSE 0
            /\ status.layer_num = IF "layer_num" \in d.keys THEN d.layer_num ELSE 0
            /\ status.total_layers =
                  IF "total_layer_num" \in d.keys THEN d.total_layer_num ELSE 0
            /\ status.remaining_time =
                  IF "mc_remaining_time" \in d.keys THEN d.mc_remaining_time ELSE 0
            /\ status.error_code =
                  IF "print_error" \in d.keys /\ d.print_error \in ErrorCodes
                     THEN d.print_error ELSE None)
    /\ [][(/\ msg'.n = msg.n + 1 /\ msg.kind = "status" /\ msg'.kind = "status"
           /\ msg'.print = msg.print) => status' = status]_vars

C14_Witness ==
    /\ msg.n = 2 /\ msg.kind = "status"
    /\ msg.print.keys = {"gcode_state", "layer_num", "print_error"}
    /\ msg.print.print_error = Empty
    /\ status = PrinterStatus(msg.print.gcode_state, 0, 7, 0, 0, None)

\* C15: a message that is not text, not JSON, not an object, has no "print"
\* section or one that is not an object leaves the snapshot as it was, does
\* not call the status callback, ends inside _on_message (returned or caught
\* and logged) and changes nothing the control loop or the gateway sees.
C15_UnusableMessagesChangeNothing ==
    /\ [](msg.kind \in OtherKinds =>
             (/\ msg.outcome \in {"returned", "warning logged", "error logged"}
              /\ ~msg.notified))
    /\ [][(msg'.n # msg.n /\ msg'.kind \in OtherKinds) =>
             (/\ status' = status
              /\ UNCHANGED <<pc, shutdown_requested, mqtt_client, connected, job, file,
                             st, exc, monVars, histVars, exit_cause, faults,
                             jobs_fetched, on_status_update>>)]_vars

C15_Witness ==
    /\ msg.n = 2 /\ msg.kind = "bad_section" /\ on_status_update
    /\ status.state = "RUNNING" /\ status.progress = 55

\* the snapshots the scenario's status documents decode to
SeqSnapshots == {StatusSeq(p)[i] : p \in FinishPercents, i \in 1..Len(StatusSeq(100))}

\* C16: in the scenario, the snapshot and every value read from it are
\* absent or the decode of one of the scenario's documents as a whole; a
\* read returns the snapshot of that moment; and a monitoring tick reports
\* the progress of, and decides completion on, the one value it read at its
\* top, also when the snapshot was replaced since.
C16_ReadersSeeWholeSnapshots ==
    /\ [](/\ status \in SeqSnapshots \cup {NoStatus}
          /\ st \in SeqSnapshots \cup {NoStatus})
    /\ [][/\ (st' # st /\ st' # NoStatus) => st' = status
          /\ (pc = "monitor_body" /\ pc' # pc) =>
                /\ (CallMade /\ NewCall.op = "progress") => NewCall.pct = st.progress
                /\ st.state = "FINISH" <=> (pc' = "remove" /\ LastCall(calls').op = "complete")
                /\ st.state = "RUNNING" => pc' = "monitor"]_vars

C16_Witness ==
    /\ pc = "monitor_body" /\ st.state = "RUNNING" /\ st.progress = 10
    /\ status.state = "FINISH"

\* exception types that are ConnectionError or a subclass of it
IsConnectionError(r) == r \in {"ConnectionError", "ConnectionRefusedError"}

\* C17: connect() returns only from its check after the wait and only when
\* _connected is set at that check; the wait ends only when _connected is
\* set or the 10 s are over; when _connected is unset at the check
\* ConnectionError is raised; apart from the transport's other OSErrors,
\* raised before the wait, every failure of connect() is a ConnectionError
\* (a refused connection raises ConnectionRefusedError); all are fatal to main.
C17_ConnectReturnsOnlyConnected ==
    /\ [](/\ connect_result \notin {"none", "returned"}
             => (pc \in {"finally", "exited"} /\ exit_cause = "connect")
          /\ connect_result \notin {"none", "returned", "OSError"}
             => IsConnectionError(connect_result)
          /\ pc \in {"validate", "connect", "connect_wait", "connect_check"}
             => connect_result = "none")
    /\ [][/\ (connect_result # "returned" /\ connect_result' = "returned") =>
                (pc = "connect_check" /\ connected /\ connected')
          /\ (pc = "connect_wait" /\ pc' # pc) =>
                (pc' = "connect_check" /\ (connected \/ waited = ConnectTimeout))
          /\ (pc = "connect_check" /\ pc' # pc /\ ~connected) =>
                (pc' = "finally" /\ connect_result' = "ConnectionError")]_vars

C17_Witness == connect_result = "ConnectionError" /\ pc = "exited" /\ ~mqtt_client

\* C18: once connect() has returned and the session is not connected any
\* more, it does not get connected again and the main loop does not go on to
\* fetch a job.
C18_DisconnectIsFatal ==
    [][(connect_result = "returned" /\ ~connected) =>
          /\ ~connected'
          /\ pc = "main_loop" => pc' \in {"main_loop", "finally"}
          /\ jobs_fetched' = jobs_fetched]_vars

\* C19: with the shutdown flag set, the main loop, the monitoring loop and
\* the wait loop of connect() do not start another iteration.
C19_ShutdownStopsWaitLoops ==
    [][shutdown_requested =>
          /\ pc = "main_loop" => pc' \in {"main_loop", "finally"}
          /\ pc = "monitor" => (pc' \in {"monitor", "remove"} /\ now' = now)
          /\ pc = "connect_wait" => waited' = waited]_vars

\* some update_progress call of the cycle has raised
ReportFailed(cs) == \E i \in DOMAIN cs : cs[i].op = "progress" /\ ~cs[i].ok

\* C20: a tick whose update_progress raised leaves last_progress and
\* last_progress_update as they were and goes on as any tick does: it keeps
\* monitoring unless its snapshot ends the job; and once a report has failed,
\* a tick that reads FINISH still calls complete_job and a tick that reads
\* FAILED still calls fail_job.
C20_FailedReportKeepsMonitoring ==
    [][(pc = "monitor_body" /\ pc' # pc) =>
          /\ (CallMade /\ NewCall.op = "progress" /\ ~NewCall.ok) =>
                /\ last_progress' = last_progress
                /\ last_progress_update' = last_progress_update
                /\ pc' = IF Verdict(st, last_progress)[1] = None THEN "monitor" ELSE "remove"
                /\ (st.state = "RUNNING" /\ st.error_code = None) => pc' = "monitor"
          /\ ReportFailed(calls') =>
                /\ st.state = "FINISH" =>
                      (pc' = "remove" /\ LastCall(calls').op = "complete")
                /\ st.state = "FAILED" =>
                      (pc' = "remove" /\ LastCall(calls').op = "fail")]_vars

C20_Witness ==
    /\ pc = "remove" /\ result = "completed"
    /\ Len(calls) = 4 /\ calls[2].op = "progress" /\ ~calls[2].ok
    /\ calls[3].op = "progress" /\ calls[3].ok
    /\ calls[4].op = "complete"

----------------------------------------------------------------------------
\* the state of the control loop a failed fetch must leave alone
loopState == <<job, file, jobs_fetched, printerVars, monVars, histVars, exit_cause,
               shutdown_requested>>

(* C21: a failed get_next_job starts no job cycle and changes no state of the
   control loop (the step into the loop's handler leaves the job, the file,
   the session, the monitor's variables and the history alone and enters no
   position of process_job); the handler only logs and goes on to the poll
   sleep, never to the exit; the sleep leads back to the loop condition, and
   from there, with the printer idle and no shutdown requested, the next step
   of the loop is another fetch. *)
C21_FetchFailureIsTransient ==
    /\ [][(pc = "get_next_job" /\ pc' = "main_except")
             => (exc' = "get_next_job error" /\ UNCHANGED loopState)]_vars
    /\ [][(pc = "main_except" /\ pc' # pc)
             => (pc' = "poll_sleep" /\ UNCHANGED loopState)]_vars
    /\ [][(pc = "poll_sleep" /\ pc' # pc)
             => (pc' = "main_loop" /\ UNCHANGED <<job, file, jobs_fetched, printerVars,
                                                   exit_cause, shutdown_requested>>)]_vars
    /\ [][(pc = "main_loop" /\ pc' # pc /\ ~shutdown_requested /\ IsIdle(status))
             => pc' = "get_next_job"]_vars
    /\ [](pc = "main_except" => (exit_cause = "none" /\ calls = <<>> /\ cmds = <<>>))

\* a fetch has just failed, the printer is idle and nobody asked to stop
C21_Witness ==
    /\ pc = "main_except" /\ exc = "get_next_job error"
    /\ ~shutdown_requested /\ IsIdle(status)

----------------------------------------------------------------------------
(* C22: upload_file never raises: whatever fault stops it, it has returned
   False (process_job then raises its own "Failed to upload file to printer",
   never the fault itself), and it has returned True only when no fault
   occurred and all its statements, the store and the quit last, were run. *)
C22_UploadNeverRaises ==
    /\ ftp.returned \in {None, "True", "False"}
    /\ uploaded \in {"no", "ok", "failed"}
    /\ ftp.fault # None => (ftp.returned = "False" /\ uploaded = "failed")
    /\ uploaded = "failed" => ftp.returned = "False"
    /\ uploaded = "ok" <=> ftp.returned = "True"
    /\ ftp.returned = "True" =>
          /\ ftp.fault = None /\ ftp.steps = UploadSteps
          /\ ftp.steps[Len(ftp.steps) - 1] = "store" /\ ftp.steps[Len(ftp.steps)] = "quit"
    /\ (pc = "except" /\ uploaded = "failed") => exc = "Failed to upload file to printer"

\* ntransfercmd refused active mode and the job cycle is in its handler
C22_Witness ==
    /\ pc = "except" /\ ftp.fault = "active mode" /\ ftp.steps = <<"connect", "login", "open">>
    /\ uploaded = "failed"

----------------------------------------------------------------------------
(* C30: in a job cycle at most one complete_job or fail_job call is made and
   it is the cycle's last gateway call, so no update_progress call follows
   it; once it is made, whether it succeeded or raised, the cycle is past
   monitoring and past the handler of process_job, and the cycle's list of
   calls grows no more. *)
C30_OneTerminalCallAndItIsLast ==
    /\ [](/\ Cardinality(Terminal) <= 1
          /\ \A t \in Terminal : t = Len(calls)
          /\ Terminal # {} => pc \in {"remove", "poll_sleep"})
    /\ [][Terminal # {} => ~CallMade]_vars

\* the complete_job call of a finished print failed and the cycle is over
C30_Witness ==
    /\ pc = "poll_sleep" /\ Terminal # {} /\ CallsOf("progress") # {}
    /\ LastCall(calls).op = "complete" /\ ~LastCall(calls).ok

----------------------------------------------------------------------------
(* C27: for a status document the receive thread replaces the snapshot inside
   the with-block and calls the callback after it: while the callback runs
   the receive thread does not hold the lock (a reader can take it), the
   published snapshot and the callback's argument are both the decoding of
   the message being handled, and the callback is entered once per status
   document, in the step that handles the document, and only when one is
   registered. *)
C27_ObserverCalledAfterUnlock ==
    /\ [](/\ status_lock # "receiver"
          /\ rpc = "observer" =>
                /\ msg.kind = "status" /\ msg.notified
                /\ status = ParseStatus(msg.print)
                /\ observer_arg = status
                /\ status_lock = "free" => ENABLED StatusAcquire)
    /\ [][/\ (rpc = "idle" /\ rpc' = "observer") =>
                (/\ msg'.n = msg.n + 1 /\ msg'.kind = "status" /\ on_status_update
                 /\ status' = ParseStatus(msg'.print))
          /\ (msg'.n = msg.n + 1 /\ msg'.kind = "status" /\ on_status_update) =>
                (rpc = "idle" /\ rpc' = "observer")
          /\ rpc = "observer" => (msg' = msg /\ status' = status)]_vars

\* the callback is running on a snapshot while a reader holds the lock
C27_Witness ==
    /\ rpc = "observer" /\ status_lock = "reader"
    /\ observer_arg.state = "RUNNING" /\ status = observer_arg

----------------------------------------------------------------------------
(* C28: a job is marked terminal only on a snapshot published after its
   start command.  In the leftover runs no snapshot is published after the
   start command, so a started job gets no complete_job or fail_job call. *)
C28_NoTerminalOnLeftoverSnapshot == Started => Terminal = {}

----------------------------------------------------------------------------
(* C29: while the printer is printing, a status document without the state
   field never makes the orchestrator fail the job as stopped.  In the
   printing runs the printer prints from the start command on, so no
   fail_job call carries the reason "stopped unexpectedly". *)
C29_PartialDocumentNeverStopsJob ==
    \A i \in CallsOf("fail") : calls[i].reason # "stopped unexpectedly"

----------------------------------------------------------------------------
\* the clock of the job cycle is past what the model counts
ClockStopped == pc = "monitor" /\ ~ClockRuns(now, last_progress_update)

(* C25: every job cycle ends: a fetched job's cycle reaches the poll sleep
   with the job completed or failed, when nobody asks for shutdown and every
   call returns.  Checked in the idle runs, where the printer stays idle at
   0% after the start command; a run that comes to the end of the counted
   time is not held against the property. *)
C25_JobCycleEnds == (pc = "download") ~> (CycleEnded \/ ClockStopped)

----------------------------------------------------------------------------
(* C26: once shutdown is requested the control loop exits (the monitoring
   loop and the poll loop are both left), no job cycle is entered any more,
   and the way out disconnects the session, once: the exit step is the only
   one after which the program has stopped, it leaves no client and no
   connection, and nothing happens after it. *)
C26_ShutdownExitsWithoutNewJob ==
    /\ shutdown_requested ~> (pc = "exited")
    /\ [][shutdown_requested => ~(pc # "download" /\ pc' = "download")]_vars
    /\ [][(pc' = "exited" /\ pc # "exited" /\ exit_cause' # "config")
             => (pc = "finally" /\ ~mqtt_client' /\ ~connected')]_vars
    /\ [](pc = "exited" /\ exit_cause # "config" => ~mqtt_client /\ ~connected)

----------------------------------------------------------------------------
\* a request has been handled in this step
Handled == gwVars' # gwVars

(* C23: update_job_progress on a job that is not in printing status
   (submitted, approved, rejected, queued, done or failed) is answered
   with an error and leaves the job's status and stored progress, and the
   rest of the table, as they were. *)
C23_ProgressNeedsPrinting ==
    [][(/\ Handled /\ reply'.op = "progress" /\ reply'.job_id \in JobIds
        /\ db[reply'.job_id].status # "printing")
         => (reply'.code = 400 /\ db' = db)]_vars

\* a progress request on a done job was refused
C23_Witness ==
    /\ reply.op = "progress" /\ reply.job_id \in JobIds /\ reply.code = 400
    /\ reply.progress = <<0>>
    /\ db[reply.job_id].status = "done" /\ db[reply.job_id].print_progress = <<100>>

(* C24: update_job_progress with a value outside 0..100 is answered with an
   error and leaves the table as it was, so a stored print_progress is
   NULL or within 0..100; the value of the request is the progress of the
   controller's snapshot, whatever it is. *)
C24_ProgressRangeCheckedAtGateway ==
    /\ [](\A id \in JobIds :
             \/ db[id].print_progress = Null
             \/ db[id].print_progress[1] \in 0..100)
    /\ [][(Handled /\ reply'.op = "progress")
            => /\ reply'.progress = <<status.progress>>
               /\ (status.progress < 0 \/ status.progress > 100)
                     => (reply'.code \in {400, 404} /\ db' = db)
               /\ reply'.code = 200
                     => db'[reply'.job_id].print_progress = <<status.progress>>]_vars

\* the printer reported 101%, the controller sent it for a printing job and
\* the gateway refused it
C24_Witness ==
    /\ status.progress = 101
    /\ reply.op = "progress" /\ reply.code = 400 /\ reply.progress = <<101>>
    /\ reply.job_id \in JobIds
    /\ db[reply.job_id].status = "printing" /\ db[reply.job_id].print_progress = <<0>>

\* the job's start_job call raised
StartFailed == calls # <<>> /\ calls[1].op = "start" /\ ~calls[1].ok

(* C31: when start_job raises, the step goes to the handler of process_job
   with nothing published; for that job nothing is ever published to the
   printer, start_print and monitor_print are not reached, and fail_job is
   called once, with the exception's text, as the job's second and last
   gateway call. *)
C31_FailedStartSkipsPrinter ==
    /\ [](StartFailed =>
             /\ cmds = <<>>
             /\ pc \in {"except", "poll_sleep"}
             /\ CallsOf("complete") = {} /\ CallsOf("progress") = {}
             /\ pc = "except" => Len(calls) = 1
             /\ pc = "poll_sleep" =>
                   /\ Len(calls) = 2 /\ calls[2].op = "fail"
                   /\ calls[2].reason = "start_job error")
    /\ [][(pc = "start_job" /\ CallMade /\ ~NewCall.ok)
            => (pc' = "except" /\ cmds' = cmds /\ Len(calls') = 1)]_vars

\* start_job raised and the one fail_job call that followed raised as well
C31_Witness ==
    /\ StartFailed /\ pc = "poll_sleep" /\ result = "failed"
    /\ Len(calls) = 2 /\ calls[2].op = "fail" /\ ~calls[2].ok
    /\ cmds = <<>>

\* the session is up: a client object exists and _connected is set
SessionUp == mqtt_client /\ connected
\* the step is a call of stop_print
StopCalled ==
    \/ stop_result' # stop_result
    \/ (Len(cmds') > Len(cmds) /\ LastCall(cmds') = "stop")

(* C32: without a connected session stop_print returns False and start_print
   makes process_job raise, and neither publishes anything; the job whose
   start_print returned False had its start_job call succeed, never gets
   clean_print_error or project_file published and never reaches
   monitor_print, and fail_job is its next and last gateway call. *)
C32_NoSessionNoCommand ==
    /\ [][/\ (StopCalled /\ ~SessionUp) => (stop_result' = "False" /\ cmds' = cmds)
          /\ (StopCalled /\ SessionUp) =>
                (stop_result' = "True" /\ cmds' = Append(cmds, "stop"))
          /\ (pc = "start_print" /\ pc' # pc /\ ~SessionUp) =>
                (/\ pc' = "except" /\ exc' = "Failed to start print on printer"
                 /\ cmds' = cmds /\ calls' = calls)]_vars
    /\ [](/\ exc = "Failed to start print on printer" =>
                (pc = "except" /\ StartedOk /\ Len(calls) = 1 /\ ~Started)
          /\ \A i \in CallsOf("fail") :
                calls[i].reason = "Failed to start print on printer" =>
                   /\ StartedOk /\ i = 2 /\ Len(calls) = 2
                   /\ \A k \in DOMAIN cmds : cmds[k] = "stop"
                   /\ pc = "poll_sleep")

\* the session dropped before start_print: the started job was reported
\* failed, and a stop_print call made then returned False
C32_Witness ==
    /\ pc = "poll_sleep" /\ StartedOk /\ Len(calls) = 2
    /\ calls[2].op = "fail" /\ calls[2].reason = "Failed to start print on printer"
    /\ cmds = <<>> /\ stop_result = "False" /\ ~SessionUp

\* the step is connect() returning to its caller
ConnectReturns == pc \in {"connect", "connect_check"} /\ pc' = "main_loop"

(* C33: every call of connect() that returns leaves the session connected,
   the call made while a client object already exists included. *)
C33_ConnectReturnsConnected ==
    [][ConnectReturns => (mqtt_client' /\ connected')]_vars

\* the status edges each request may take
Edges(op) ==
    CASE op = "approve"  -> {<<"submitted", "approved">>}
      [] op = "reject"   -> {<<"submitted", "rejected">>}
      [] op = "queue"    -> {<<"approved", "queued">>}
      [] op = "next"     -> {<<"approved", "queued">>}
      [] op = "start"    -> {<<"queued", "printing">>}
      [] op = "complete" -> {<<"printing", "done">>}
      [] op = "fail"     -> {<<"queued", "failed">>, <<"printing", "failed">>}
      [] OTHER           -> {}
AllEdges ==
    {<<"submitted", "approved">>, <<"submitted", "rejected">>, <<"approved", "queued">>,
     <<"queued", "printing">>, <<"queued", "failed">>, <<"printing", "done">>,
     <<"printing", "failed">>}

(* C34: a job's status changes only along submitted -> approved | rejected,
   approved -> queued, queued -> printing | failed, printing -> done |
   failed, so rejected, done and failed are never left; a request changes
   the status of its own job only, along an edge of its operation; a
   request that is refused leaves the table as it was, and a status request
   for a job whose status is not at the start of one of the operation's
   edges is refused. *)
C34_StatusEdges ==
    [][/\ \A id \in JobIds :
             db'[id].status # db[id].status =>
                /\ <<db[id].status, db'[id].status>> \in AllEdges
                /\ <<db[id].status, db'[id].status>> \in Edges(reply'.op)
                /\ reply'.job_id = id /\ reply'.code = 200
       /\ (Handled /\ reply'.code # 200) => db' = db
       /\ (Handled /\ reply'.job_id \in JobIds /\ Edges(reply'.op) # {}) =>
             LET id == reply'.job_id
             IN  IF \E e \in Edges(reply'.op) : e[1] = db[id].status
                    THEN reply'.code = 200 /\ db'[id].status # db[id].status
                    ELSE reply'.code = 400 /\ db' = db]_vars

\* a done job was reported failed and the request was refused
C34_Witness ==
    /\ reply.op = "fail" /\ reply.code = 400 /\ reply.job_id \in JobIds
    /\ db[reply.job_id].status = "done"

(* C37: in every state of the jobs table a done job has print_progress 100
   and completed_at is set exactly for the done and the failed jobs; a job
   that enters printing has print_progress 0 in that state. *)
C37_ProgressAndCompletionFields ==
    /\ [](\A id \in JobIds :
             /\ db[id].status = "done" => db[id].print_progress = <<100>>
             /\ db[id].completed_at <=> db[id].status \in {"done", "failed"})
    /\ [][\A id \in JobIds :
             (db[id].status # "printing" /\ db'[id].status = "printing")
                => db'[id].print_progress = <<0>>]_vars

\* a job whose last accepted report was 0% was completed
C37_Witness ==
    /\ reply.op = "complete" /\ reply.code = 200 /\ reply.job_id \in JobIds
    /\ db[reply.job_id].status = "done" /\ db[reply.job_id].completed_at
    /\ db[reply.job_id].print_progress = <<100>>
    /\ status # NoStatus /\ status.progress = 0

\* how many times get_next_job returned the job
HandOuts(id) == Cardinality({i \in DOMAIN handed_out : handed_out[i] = id})

(* C35: get_next_job returns each job at most once, its select and its
   commit being separate steps between which other requests run; the row a
   fetch selects is an approved one with the earliest approval time. *)
C35_EachJobHandedOutOnce ==
    /\ [](\A id \in DOMAIN db : HandOuts(id) <= 1)
    /\ [][\A r \in Requests :
             (in_flight[r] = NoRequest /\ in_flight'[r].op = "next") =>
                LET id == in_flight'[r].job_id
                IN  /\ db[id].status = "approved"
                    /\ \A other \in DOMAIN db :
                          db[other].status = "approved"
                             => db[id].approved_at <= db[other].approved_at]_vars

\* the calls a step appended to the job's calls
NewCalls == {i \in DOMAIN calls' : i > Len(calls)}

(* C38: with the gateway answering the controller's calls, every start_job,
   update_progress, complete_job and fail_job call is accepted: start_job
   and a fail_job made before start_job returned find the fetched job
   queued, update_progress (with a value within 0..100), complete_job and a
   later fail_job find it printing; so no call of the controller raises. *)
C38_CallsMatchGatewayStatus ==
    /\ [](/\ faults = 0
          /\ \A i \in DOMAIN calls : calls[i].ok)
    /\ [][\A i \in NewCalls :
             LET c == calls'[i]
                 s == db[CurrentRow].status
             IN  /\ c.op = "start" => (s = "queued" /\ db'[CurrentRow].status = "printing")
                 /\ c.op = "progress" =>
                       (/\ s = "printing" /\ c.pct \in 0..100
                        /\ db'[CurrentRow].status \in {"printing", "done", "failed"})
                 /\ c.op = "complete" => (s = "printing" /\ db'[CurrentRow].status = "done")
                 /\ c.op = "fail" =>
                       (/\ s = IF StartedOk THEN "printing" ELSE "queued"
                        /\ db'[CurrentRow].status = "failed")]_vars

\* a job was fetched, started, reported at 55% and completed
C38_Witness ==
    /\ pc = "remove" /\ result = "completed" /\ Len(calls) >= 3
    /\ \E i \in CallsOf("progress") : calls[i].pct = 55 /\ calls[i].ok
    /\ LastCall(calls).op = "complete" /\ LastCall(calls).ok
    /\ db[CurrentRow].status = "done"

\* the controller is in its poll loop, the session is up, the printer is
\* idle and no shutdown is requested
Polling ==
    /\ pc \in {"main_loop", "get_next_job", "poll_sleep"}
    /\ SessionUp /\ IsIdle(status) /\ ~shutdown_requested

(* C36: a job that is approved, or queued without having been handed out,
   is eventually returned by get_next_job, unless the controller leaves
   its poll loop, the session drops or the printer stops being idle. *)
C36_ApprovedJobIsFetched ==
    \A id \in JobIds :
       (db[id].status \in {"approved", "queued"} /\ HandOuts(id) = 0)
          ~> (HandOuts(id) > 0 \/ ~Polling)

====
